---- MODULE Spec2Model ----
(***************************************************************************)
(* Rehab-ai-python: the streaming feature/scoring pipeline and the window  *)
(* application that drives it.                                             *)
(*                                                                         *)
(* Units.  Angles and proxy metrics are whole degrees (proxy metrics are   *)
(* hundredths of a normalised coordinate times 100).  Normalised           *)
(* coordinates and sway are in units of 1e-4.  The wall clock is in whole  *)
(* ticks.  Scores returned by RepScorer.score_rep are in tenths (they are  *)
(* rounded to one decimal by the code).  Unrounded quotients are kept as   *)
(* exact fractions <<numerator, denominator>>.                             *)
(*                                                                         *)
(* Landmarks are abstracted to the values the code reads from them: the    *)
(* hip-centre x coordinate, the scalar (or pair of scalars) the exercise   *)
(* computes from its joints, and the outcome of the two posture            *)
(* comparisons of the feedback rules.                                      *)
(***************************************************************************)
EXTENDS Integers, Sequences, FiniteSets, TLC

VARIABLES
    is_running,        \* App.is_running
    pending,           \* number of update_frame callbacks scheduled with after()
    exercise_var,      \* App.exercise_var: the name shown in the dropdown
    current_exercise,  \* App.current_exercise: the selected exercise instance
    smoother,          \* App.smoother (EMALandmarkSmoother)
    sway_tracker,      \* App.sway_tracker (SwayTracker)
    session,           \* App.session (None or a Session)
    progression,       \* App.progression (ProgressionState)
    progression_file,  \* the file progression_state.json
    prog,              \* value returned by the last compute_progression()
    now,               \* last value returned by time.time()
    rom,               \* value returned by the last ROMTracker.complete_rep()
    rep_time,          \* value returned by the last TempoTracker.complete_rep()
    op,                \* last tracker method called when the trackers are driven directly
    \* history variables (not program state; they only record what happened)
    samples,           \* angles passed to ROMTracker.update since the last complete_rep/reset
    rep_samples,       \* angles that were pending at the last ROMTracker.complete_rep
    first_start,       \* clock value recorded by the first start since TempoTracker.reset
    last_complete,     \* clock value read first by the last TempoTracker.complete_rep
    overwritten,       \* a start_rep call replaced a pending start since TempoTracker.reset
    hook_calls,        \* _on_rep_complete calls since the current Session was created
    switched,          \* change_exercise was called since the current Session was created
    arrivals,          \* values passed to SwayTracker.update since its reset, when driven directly
    frames,            \* frames read so far that showed a pose or were the first of a session
    feedback_engine,   \* App.feedback_engine (FeedbackEngine)
    engine_feedback,   \* driven directly, the last call of the engine if it was evaluate():
                       \* the number of its arguments in EvalLandmarks/EvalContext and the
                       \* list returned
    scoring,           \* called directly, the last call of a scorer function: its name, its
                       \* arguments, and the scores (score_rep) or the score it returned
    landmark_call      \* called directly, the last call of a function of the landmark
                       \* processor or of a method of the smoother: its name, its
                       \* arguments and the list of landmarks it returned

vars == <<is_running, pending, exercise_var, current_exercise, smoother, sway_tracker,
          session, now, rom, rep_time, op, samples, rep_samples, first_start,
          last_complete, overwritten, hook_calls, switched, progression,
          progression_file, prog, arrivals, frames, feedback_engine, engine_feedback,
          scoring, landmark_call>>

\* Python's None for optional values: None is <<>>, a present value v is <<v>>
None == <<>>

Some(v) == <<v>>

Val(o) == o[1]

\* Python's None where the other values are strings (stage, last_leg_lifted)
NoneStr == "None"

(***************************************************************************)
(* Bounds of the model.                                                    *)
(***************************************************************************)
\* the clock stops advancing at MaxTime
MaxTime == 1
\* a run reads at most this number of frames that change the pipeline: the frames
\* with a pose and the first frame of each session
MaxFrames == 3
\* the same for the runs of SpecSway (SwayTracker reports a sway from 5 samples on)
MaxSwayFrames == 5
\* scheduled update_frame callbacks are capped
MaxPending == 1
\* the same for the runs of SpecLoops
MaxLoops == 2
\* driven directly, a tracker completes reps up to this history length
MaxReps == 3

\* driven directly, a SwayTracker is built with this window_size ...
SmallWindow == 6
\* ... and is updated this many times between two resets
MaxUpdates == 8

\* driven directly, a ProgressionState records this many sessions
MaxHistory == 4

\* driven directly, a FeedbackEngine is given this many rules
MaxRules == 3

\* driven directly, a smoother is given this many frames between two resets
MaxSmooth == 3

\* float('inf') of ROMTracker: larger than any sample magnitude
Inf == 1000000

\* how far the clock may advance between two consecutive reads of time.time()
ClockStep == {0, 1}

(***************************************************************************)
(* Arithmetic helpers.                                                     *)
(***************************************************************************)
Max2(a, b) == IF a >= b THEN a ELSE b

Min2(a, b) == IF a <= b THEN a ELSE b

Abs(a) == IF a < 0 THEN -a ELSE a

MaxOf(S) == CHOOSE x \in S : \A y \in S : y <= x

MinOf(S) == CHOOSE x \in S : \A y \in S : x <= y

RECURSIVE SeqSum(_)
SeqSum(s) == IF s = <<>> THEN 0 ELSE Head(s) + SeqSum(Tail(s))

Last(s) == s[Len(s)]

\* time.time(): the clock never runs backwards; it stops at MaxTime
Read(clk, d) == Min2(clk + d, MaxTime)

\* round(n/d, 1) in tenths, for n/d >= 0 (Python rounds ties to even)
Round1(n, d) ==
    LET whole == n \div d
        q == 10 * whole + (10 * (n % d)) \div d
        r == (10 * (n % d)) % d
    IN  IF 2 * r < d THEN q
        ELSE IF 2 * r > d THEN q + 1
        ELSE IF q % 2 = 0 THEN q ELSE q + 1

\* _clamp(value, 0.0, 100.0) on the fraction n/d, d > 0
Clamp(n, d) ==
    IF n < 0 THEN <<0, d>>
    ELSE IF n > 100 * d THEN <<100 * d, d>>
    ELSE <<n, d>>

(***************************************************************************)
(* ROMTracker (pipeline/feature_engine.py)                                 *)
(***************************************************************************)
ROMTracker_init == [current_max |-> -Inf, current_min |-> Inf, rep_roms |-> <<>>]

ROMTracker_reset(t) == [current_max |-> -Inf, current_min |-> Inf, rep_roms |-> <<>>]

ROMTracker_update(t, angle) ==
    [t EXCEPT !.current_max = Max2(@, angle), !.current_min = Min2(@, angle)]

Mut_ROMTracker_rom_no_floor(t) == t.current_max - t.current_min

\* the value complete_rep returns
ROMTracker_rom(t) ==
    LET d == t.current_max - t.current_min
    IN  IF d < 0 THEN 0 ELSE d

Mut_ROMTracker_complete_rep_keeps_extremes(t) ==
    [t EXCEPT !.rep_roms = Append(@, ROMTracker_rom(t))]

\* the tracker after complete_rep
ROMTracker_complete_rep(t) ==
    [current_max |-> -Inf, current_min |-> Inf,
     rep_roms |-> Append(t.rep_roms, ROMTracker_rom(t))]

\* average_rom as a fraction
ROMTracker_average_rom(t) ==
    IF t.rep_roms = <<>> THEN <<0, 1>> ELSE <<SeqSum(t.rep_roms), Len(t.rep_roms)>>

(***************************************************************************)
(* TempoTracker (pipeline/feature_engine.py)                               *)
(***************************************************************************)
TempoTracker_init == [rep_start_time |-> None, rep_times |-> <<>>]

TempoTracker_reset(t) == [rep_start_time |-> None, rep_times |-> <<>>]

\* start_rep, r being the value time.time() returns
TempoTracker_start_rep(t, r) == [t EXCEPT !.rep_start_time = Some(r)]

\* the value complete_rep returns, t1 being its first clock reading
TempoTracker_rep_time(t, t1) ==
    IF t.rep_start_time = None THEN 0 ELSE t1 - Val(t.rep_start_time)

Mut_TempoTracker_complete_rep_drops_zero(t, t1, t2) ==
    IF t.rep_start_time = None \/ t1 = Val(t.rep_start_time) THEN t
    ELSE [rep_start_time |-> Some(t2),
          rep_times |-> Append(t.rep_times, t1 - Val(t.rep_start_time))]

\* the tracker after complete_rep; t1 and t2 are its two clock readings
TempoTracker_complete_rep(t, t1, t2) ==
    IF t.rep_start_time = None THEN t
    ELSE [rep_start_time |-> Some(t2),
          rep_times |-> Append(t.rep_times, t1 - Val(t.rep_start_time))]

\* average_tempo as a fraction
TempoTracker_average_tempo(t) ==
    IF t.rep_times = <<>> THEN <<0, 1>> ELSE <<SeqSum(t.rep_times), Len(t.rep_times)>>

(***************************************************************************)
(* SwayTracker (pipeline/feature_engine.py)                                *)
(***************************************************************************)
RECURSIVE SeqSumSq(_)
SeqSumSq(s) == IF s = <<>> THEN 0 ELSE Head(s) * Head(s) + SeqSumSq(Tail(s))

SeqRange(s) == {s[i] : i \in 1..Len(s)}

\* floor of the square root of v, known to be at most hi
ISqrt(v, hi) == CHOOSE r \in 0..hi : r * r <= v /\ v < (r + 1) * (r + 1)

\* float(np.std(list(h))): population standard deviation, to the model's resolution
Std(h) ==
    LET n == Len(h)
        v == (n * SeqSumSq(h) - SeqSum(h) * SeqSum(h)) \div (n * n)
    IN  ISqrt(v, MaxOf(SeqRange(h)) - MinOf(SeqRange(h)))

Mut_DequeAppend_no_eviction(h, x, maxlen) == Append(h, x)

\* deque(maxlen=window_size).append
DequeAppend(h, x, maxlen) ==
    IF Len(h) >= maxlen THEN Append(Tail(h), x) ELSE Append(h, x)

SwayTracker_init(window_size) ==
    [window_size |-> window_size, hip_x_history |-> <<>>, current_sway |-> 0]

SwayTracker_reset(t) == [t EXCEPT !.hip_x_history = <<>>, !.current_sway = 0]

SwayTracker_update(t, hip_center_x) ==
    LET h == DequeAppend(t.hip_x_history, hip_center_x, t.window_size)
    IN  [t EXCEPT !.hip_x_history = h,
                  !.current_sway = IF Len(h) >= 5 THEN Std(h) ELSE 0]

(***************************************************************************)
(* EMALandmarkSmoother (pipeline/smoother.py).  The filter state is the    *)
(* smoothed landmark array; the model keeps its hip-centre x.  A frame     *)
(* carries the coordinates as they leave the filter (on the first frame    *)
(* after a reset these are the raw coordinates).                           *)
(***************************************************************************)
EMALandmarkSmoother_init == [state |-> None]

EMALandmarkSmoother_reset(sm) == [sm EXCEPT !.state = None]

EMALandmarkSmoother_smooth(sm, lm) == [sm EXCEPT !.state = Some(lm.hip_x)]

(***************************************************************************)
(* The smoother and the landmark processor on whole landmark lists.  A raw  *)
(* landmark is a record of x, y, z (whole numbers) and visibility (in       *)
(* hundredths; None when the object has no such attribute).  A coordinate   *)
(* that was computed is an exact fraction <<numerator, denominator>>.       *)
(***************************************************************************)
\* EMALandmarkSmoother(alpha), alpha a fraction
EMALandmarkSmoother(alpha) == [alpha |-> alpha, state |-> None]

\* self.alpha; the smoother of the application is built with alpha=0.3
Alpha(sm) == IF "alpha" \in DOMAIN sm THEN sm.alpha ELSE <<3, 10>>

\* alpha * current + (1.0 - alpha) * state for one coordinate
EMA(alpha, current, state) ==
    <<alpha[1] * current * state[2] + (alpha[2] - alpha[1]) * state[1], alpha[2] * state[2]>>

\* the array [[lm.x, lm.y, lm.z] for lm in landmarks]
CurrentArray(landmarks) ==
    [i \in 1..Len(landmarks) |-> <<landmarks[i].x, landmarks[i].y, landmarks[i].z>>]

Mut_smooth_first_frame_from_zero(sm, landmarks) ==
    LET current == CurrentArray(landmarks)
        old == IF sm.state = None
               THEN [i \in 1..Len(current) |-> [c \in 1..3 |-> <<0, 1>>]]
               ELSE Val(sm.state)
        state == [i \in 1..Len(current) |->
                     [c \in 1..3 |-> EMA(Alpha(sm), current[i][c], old[i][c])]]
    IN  [self |-> [sm EXCEPT !.state = Some(state)],
         landmarks |-> [i \in 1..Len(landmarks) |->
                           [landmarks[i] EXCEPT !.x = state[i][1], !.y = state[i][2],
                                                !.z = state[i][3]]]]

\* EMALandmarkSmoother.smooth(landmarks): the smoother it leaves and the list it
\* returns (the objects it was given, with the coordinates of the filter state)
smooth(sm, landmarks) ==
    LET current == CurrentArray(landmarks)
        state == IF sm.state = None
                 THEN [i \in 1..Len(current) |-> [c \in 1..3 |-> <<current[i][c], 1>>]]
                 ELSE [i \in 1..Len(current) |->
                          [c \in 1..3 |-> EMA(Alpha(sm), current[i][c], Val(sm.state)[i][c])]]
    IN  [self |-> [sm EXCEPT !.state = Some(state)],
         landmarks |-> [i \in 1..Len(landmarks) |->
                           [landmarks[i] EXCEPT !.x = state[i][1], !.y = state[i][2],
                                                !.z = state[i][3]]]]

(***************************************************************************)
(* Landmark processor (pipeline/landmark_processor.py)                     *)
(***************************************************************************)
\* 0.5, in hundredths
VISIBILITY_THRESHOLD == 50

\* the smallest torso length normalize_landmarks divides by: 0.01, in units of 1e-4
TorsoEpsilon == 100

ProcessedLandmark(x, y, z, visibility, valid) ==
    [x |-> x, y |-> y, z |-> z, visibility |-> visibility, valid |-> valid]

\* getattr(lm, 'visibility', 1.0)
Visibility(lm) == IF lm.visibility = None THEN 100 ELSE Val(lm.visibility)

RECURSIVE Mut_filter_visibility_drops_invalid(_, _)
Mut_filter_visibility_drops_invalid(landmarks, threshold) ==
    IF landmarks = <<>> THEN <<>>
    ELSE LET lm == Head(landmarks)
             vis == Visibility(lm)
             rest == Mut_filter_visibility_drops_invalid(Tail(landmarks), threshold)
         IN  IF vis >= threshold
             THEN <<ProcessedLandmark(lm.x, lm.y, lm.z, vis, TRUE)>> \o rest
             ELSE rest

RECURSIVE filter_visibility(_, _)
filter_visibility(landmarks, threshold) ==
    IF landmarks = <<>> THEN <<>>
    ELSE LET lm == Head(landmarks)
             vis == Visibility(lm)
         IN  <<ProcessedLandmark(lm.x, lm.y, lm.z, vis, vis >= threshold)>>
             \o filter_visibility(Tail(landmarks), threshold)

RECURSIVE NormalizeBy(_, _, _)
NormalizeBy(processed_landmarks, hip_center, torso_length) ==
    IF processed_landmarks = <<>> THEN <<>>
    ELSE LET lm == Head(processed_landmarks)
         IN  <<IF lm.valid
               THEN ProcessedLandmark(<<lm.x - hip_center[1], torso_length>>,
                                      <<lm.y - hip_center[2], torso_length>>,
                                      <<lm.z - hip_center[3], torso_length>>,
                                      lm.visibility, TRUE)
               ELSE ProcessedLandmark(lm.x, lm.y, lm.z, lm.visibility, FALSE)>>
             \o NormalizeBy(Tail(processed_landmarks), hip_center, torso_length)

Mut_normalize_landmarks_no_epsilon(processed_landmarks, hip_center, torso_length) ==
    NormalizeBy(processed_landmarks, hip_center, torso_length)

normalize_landmarks(processed_landmarks, hip_center, torso_length) ==
    NormalizeBy(processed_landmarks, hip_center,
                IF torso_length < TorsoEpsilon THEN TorsoEpsilon ELSE torso_length)

(***************************************************************************)
(* Scoring (pipeline/scorer.py).  Configurations hold target_rom in        *)
(* degrees, ideal_rep_time in clock ticks, acceptable_sway in units of     *)
(* 1e-4 and the weights in hundredths.                                     *)
(***************************************************************************)
ExerciseConfig(target_rom, ideal_rep_time, acceptable_sway, tempo_penalty_factor, weight_rom, weight_stability, weight_tempo) ==
    [target_rom |-> target_rom, ideal_rep_time |-> ideal_rep_time,
     acceptable_sway |-> acceptable_sway, stability_factor |-> 100,
     tempo_penalty_factor |-> tempo_penalty_factor, asymmetry_penalty_factor |-> 5,
     weight_rom |-> weight_rom, weight_stability |-> weight_stability,
     weight_tempo |-> weight_tempo]

DefaultConfig == ExerciseConfig(90, 3, 200, 20, 40, 30, 30)

Mut_compute_rom_score_unclamped(user_rom, target_rom) ==
    IF target_rom <= 0 THEN <<100, 1>> ELSE <<user_rom * 100, target_rom>>

compute_rom_score(user_rom, target_rom) ==
    IF target_rom <= 0 THEN <<100, 1>> ELSE Clamp(user_rom * 100, target_rom)

Mut_compute_stability_score_unclamped(sway, acceptable_sway, stability_factor) ==
    IF acceptable_sway <= 0 THEN <<100, 1>>
    ELSE <<100 * acceptable_sway - sway * stability_factor, acceptable_sway>>

compute_stability_score(sway, acceptable_sway, stability_factor) ==
    IF acceptable_sway <= 0 THEN Clamp(100, 1)
    ELSE Clamp(100 * acceptable_sway - sway * stability_factor, acceptable_sway)

Mut_compute_tempo_score_symmetric(rep_t, ideal_rep_time, penalty_factor) ==
    Clamp(100 - Abs(rep_t - ideal_rep_time) * penalty_factor * 2, 1)

compute_tempo_score(rep_t, ideal_rep_time, penalty_factor) ==
    LET diff == rep_t - ideal_rep_time
    IN  IF diff < 0 THEN Clamp(100 - Abs(diff) * penalty_factor * 2, 1)
        ELSE Clamp(200 - Abs(diff) * penalty_factor, 2)

compute_asymmetry_score(left_angle, right_angle, penalty_factor) ==
    Clamp(100 - Abs(left_angle - right_angle) * penalty_factor, 1)

\* weights are hundredths, so the weighted sum is divided by 100
compute_final_score(rom_score, stability_score, tempo_score, config) ==
    Clamp(config.weight_rom * rom_score[1] * stability_score[2] * tempo_score[2]
          + config.weight_stability * stability_score[1] * rom_score[2] * tempo_score[2]
          + config.weight_tempo * tempo_score[1] * rom_score[2] * stability_score[2],
          100 * rom_score[2] * stability_score[2] * tempo_score[2])

Mut_score_rep_weighs_asymmetry(config, user_rom, sway, rep_t, left_angle, right_angle) ==
    LET rom_score == compute_rom_score(user_rom, config.target_rom)
        stability_score == compute_stability_score(sway, config.acceptable_sway,
                                                   config.stability_factor)
        tempo_score == compute_tempo_score(rep_t, config.ideal_rep_time,
                                           config.tempo_penalty_factor)
        asymmetry_score ==
            IF left_angle # None /\ right_angle # None
            THEN compute_asymmetry_score(Val(left_angle), Val(right_angle),
                                         config.asymmetry_penalty_factor)
            ELSE <<100, 1>>
        final_score == compute_final_score(rom_score, asymmetry_score, tempo_score, config)
    IN  [rom_score |-> Round1(rom_score[1], rom_score[2]),
         stability_score |-> Round1(stability_score[1], stability_score[2]),
         tempo_score |-> Round1(tempo_score[1], tempo_score[2]),
         asymmetry_score |-> Round1(asymmetry_score[1], asymmetry_score[2]),
         final_score |-> Round1(final_score[1], final_score[2])]

\* RepScorer.score_rep; left_angle and right_angle are None or Some(angle)
score_rep(config, user_rom, sway, rep_t, left_angle, right_angle) ==
    LET rom_score == compute_rom_score(user_rom, config.target_rom)
        stability_score == compute_stability_score(sway, config.acceptable_sway,
                                                   config.stability_factor)
        tempo_score == compute_tempo_score(rep_t, config.ideal_rep_time,
                                           config.tempo_penalty_factor)
        asymmetry_score ==
            IF left_angle # None /\ right_angle # None
            THEN compute_asymmetry_score(Val(left_angle), Val(right_angle),
                                         config.asymmetry_penalty_factor)
            ELSE <<100, 1>>
        final_score == compute_final_score(rom_score, stability_score, tempo_score, config)
    IN  [rom_score |-> Round1(rom_score[1], rom_score[2]),
         stability_score |-> Round1(stability_score[1], stability_score[2]),
         tempo_score |-> Round1(tempo_score[1], tempo_score[2]),
         asymmetry_score |-> Round1(asymmetry_score[1], asymmetry_score[2]),
         final_score |-> Round1(final_score[1], final_score[2])]

(***************************************************************************)
(* Exercises (exercises/*.py).  An exercise instance is a record; `name`   *)
(* is its key in EXERCISES and stands for its class.  The `feedback` text  *)
(* is display only and is not modelled.                                    *)
(***************************************************************************)
EXERCISES ==
    {"Squats", "Sit-to-Stand", "Marching", "Leg Raises", "Wall Push-ups",
     "Standing Hip Abduction", "Standing Hip Extension", "Heel Raises",
     "Forward Arm Raises", "Side Arm Raises"}

\* list(EXERCISES.keys())[0]
FirstExercise == "Squats"

\* self.config of each exercise class
Config(name) ==
    CASE name = "Squats" -> ExerciseConfig(70, 4, 150, 20, 40, 35, 25)
      [] name = "Sit-to-Stand" -> ExerciseConfig(50, 5, 200, 20, 30, 40, 30)
      [] name = "Marching" -> ExerciseConfig(30, 3, 250, 20, 30, 40, 30)
      [] name = "Leg Raises" -> ExerciseConfig(50, 4, 200, 20, 45, 30, 25)
      [] name = "Wall Push-ups" -> ExerciseConfig(60, 4, 150, 20, 45, 25, 30)
      [] name = "Standing Hip Abduction" -> ExerciseConfig(25, 4, 250, 20, 35, 40, 25)
      [] name = "Standing Hip Extension" -> DefaultConfig
      [] name = "Heel Raises" -> ExerciseConfig(5, 5, 200, 15, 25, 35, 40)
      [] name = "Forward Arm Raises" -> ExerciseConfig(60, 4, 150, 20, 45, 25, 30)
      [] name = "Side Arm Raises" -> ExerciseConfig(55, 4, 150, 20, 45, 25, 30)

\* ExerciseBase.__init__ (and Marching.__init__ for last_leg_lifted)
ExerciseBase_init(name) ==
    [name |-> name, counter |-> 0, stage |-> NoneStr, rep_completed |-> FALSE,
     last_rep_scores |-> None, last_leg_lifted |-> NoneStr,
     rom_tracker |-> ROMTracker_init, tempo_tracker |-> TempoTracker_init]

Mut_ExerciseBase_reset_keeps_trackers(self) ==
    [self EXCEPT !.counter = 0, !.stage = NoneStr, !.last_rep_scores = None,
                 !.rep_completed = FALSE, !.last_leg_lifted = NoneStr]

\* ExerciseBase.reset; Marching.reset also clears last_leg_lifted, which only Marching sets
ExerciseBase_reset(self) ==
    [self EXCEPT !.counter = 0, !.stage = NoneStr, !.last_rep_scores = None,
                 !.rep_completed = FALSE, !.last_leg_lifted = NoneStr,
                 !.rom_tracker = ROMTracker_reset(@),
                 !.tempo_tracker = TempoTracker_reset(@)]

(***************************************************************************)
(* A call of process() is an effect on the instance and on the clock.  An  *)
(* effect also reports what the call did: the                              *)
(* metric it passed to ROMTracker.update, how many times the rep-complete    *)
(* hook ran, the clock value a start recorded, the first clock value a     *)
(* completion read, and the values the two complete_rep() calls returned.  *)
(***************************************************************************)
Effect(self, clk) ==
    [self |-> self, clk |-> clk, sample |-> None, hooks |-> 0, started |-> None,
     completed |-> None, rom |-> None, rep_time |-> None]

Mut_on_rep_start_unguarded(e, d) ==
    LET r == Read(e.clk, d)
    IN  [e EXCEPT !.self.tempo_tracker = TempoTracker_start_rep(@, r),
                  !.clk = r, !.started = Some(r)]

\* ExerciseBase._on_rep_start; d is the advance of the clock at its read
on_rep_start(e, d) ==
    IF e.self.tempo_tracker.rep_start_time = None
    THEN LET r == Read(e.clk, d)
         IN  [e EXCEPT !.self.tempo_tracker = TempoTracker_start_rep(@, r),
                       !.clk = r, !.started = Some(r)]
    ELSE e

\* ExerciseBase._on_rep_complete(sway); d1, d2 are the advances of the clock at
\* the two reads of TempoTracker.complete_rep (it reads only with a pending start)
on_rep_complete(e, sway, d1, d2) ==
    LET reads == e.self.tempo_tracker.rep_start_time # None
        t1 == IF reads THEN Read(e.clk, d1) ELSE e.clk
        t2 == IF reads THEN Read(t1, d2) ELSE e.clk
        rom_ == ROMTracker_rom(e.self.rom_tracker)
        rep_time_ == TempoTracker_rep_time(e.self.tempo_tracker, t1)
    IN  [e EXCEPT !.self.rom_tracker = ROMTracker_complete_rep(@),
                  !.self.tempo_tracker = TempoTracker_complete_rep(@, t1, t2),
                  !.self.last_rep_scores =
                      Some(score_rep(Config(e.self.name), rom_, sway, rep_time_, None, None)),
                  !.self.rep_completed = TRUE,
                  !.clk = t2, !.hooks = @ + 1,
                  !.completed = IF reads THEN Some(t1) ELSE @,
                  !.rom = Some(rom_), !.rep_time = Some(rep_time_)]

\* the sway argument the exercises pass: every call is self._on_rep_complete()
DefaultSway == 0

Mut_process_begin_keeps_flag(self, metric) ==
    [self EXCEPT !.rom_tracker = ROMTracker_update(@, metric)]

\* the head of every scored process(): rom_tracker.update(metric); rep_completed = False
process_begin(self, metric) ==
    [self EXCEPT !.rom_tracker = ROMTracker_update(@, metric), !.rep_completed = FALSE]

\* the body shared by the threshold exercises:
\*   if <start>: _on_rep_start(); stage = s1
\*   if|elif <complete> and stage == s1: stage = s2; counter += 1; _on_rep_complete()
ThresholdProcess(self, clk, ds, metric, start, complete, s1, s2, isElif) ==
    LET e0 == [Effect(process_begin(self, metric), clk) EXCEPT !.sample = Some(metric)]
        e1 == IF start
              THEN [on_rep_start(e0, ds[1]) EXCEPT !.self.stage = s1]
              ELSE e0
    IN  IF (~isElif \/ ~start) /\ complete /\ e1.self.stage = s1
        THEN on_rep_complete([e1 EXCEPT !.self.stage = s2, !.self.counter = @ + 1],
                             DefaultSway, ds[2], ds[3])
        ELSE e1

Squats_process(self, clk, ds, angle) ==
    ThresholdProcess(self, clk, ds, angle, angle > 160, angle < 140, "up", "down", FALSE)

LegRaises_process(self, clk, ds, angle) ==
    ThresholdProcess(self, clk, ds, angle, angle > 160, angle < 150, "down", "up", FALSE)

WallPushups_process(self, clk, ds, angle) ==
    ThresholdProcess(self, clk, ds, angle, angle > 150, angle < 130, "up", "down", FALSE)

StandingHipAbduction_process(self, clk, ds, angle) ==
    ThresholdProcess(self, clk, ds, angle, angle > 170, angle < 165, "down", "up", FALSE)

ForwardArmRaises_process(self, clk, ds, angle) ==
    ThresholdProcess(self, clk, ds, angle, angle < 30, angle > 45, "down", "up", FALSE)

SideArmRaises_process(self, clk, ds, angle) ==
    ThresholdProcess(self, clk, ds, angle, angle < 35, angle > 50, "down", "up", FALSE)

\* vertical_dist is in hundredths; proxy_angle = vertical_dist * 100
SitToStand_process(self, clk, ds, vertical_dist) ==
    ThresholdProcess(self, clk, ds, vertical_dist, vertical_dist < 10, vertical_dist > 15,
                     "seated", "standing", TRUE)

HeelRaises_process(self, clk, ds, vertical_dist) ==
    ThresholdProcess(self, clk, ds, vertical_dist, vertical_dist < 2, vertical_dist > 3,
                     "down", "up", TRUE)

Mut_Marching_lift_starts_at_first_lift(e, ds, leg, other) ==
    IF e.self.last_leg_lifted # leg
    THEN LET e1 == [e EXCEPT !.self.stage = IF leg = "left" THEN "left lifted"
                                            ELSE "right lifted"]
             e2 == IF e1.self.last_leg_lifted = other
                   THEN on_rep_complete(
                            [on_rep_start(e1, ds[1]) EXCEPT !.self.counter = @ + 1],
                            DefaultSway, ds[2], ds[3])
                   ELSE on_rep_start(e1, ds[1])
         IN  [e2 EXCEPT !.self.last_leg_lifted = leg]
    ELSE e

\* one branch of Marching.process: `leg` was lifted, `other` is the other leg
Marching_lift(e, ds, leg, other) ==
    IF e.self.last_leg_lifted # leg
    THEN LET e1 == [e EXCEPT !.self.stage = IF leg = "left" THEN "left lifted"
                                            ELSE "right lifted"]
             e2 == IF e1.self.last_leg_lifted = other
                   THEN on_rep_complete(
                            [on_rep_start(e1, ds[1]) EXCEPT !.self.counter = @ + 1],
                            DefaultSway, ds[2], ds[3])
                   ELSE e1
         IN  [e2 EXCEPT !.self.last_leg_lifted = leg]
    ELSE e

\* l_d = (l_hip.y + 0.05) - l_knee.y and r_d likewise, in hundredths
Marching_process(self, clk, ds, l_d, r_d) ==
    LET l_lift == Max2(0, l_d)
        r_lift == Max2(0, r_d)
        m == Max2(l_lift, r_lift)
        e0 == [Effect(process_begin(self, m), clk) EXCEPT !.sample = Some(m)]
    IN  IF l_d > 0 THEN Marching_lift(e0, ds, "left", "right")
        ELSE IF r_d > 0 THEN Marching_lift(e0, ds, "right", "left")
        ELSE e0

\* StandingHipExtension.process: no tracker, no hook, no rep_completed
StandingHipExtension_process(self, clk, angle) ==
    LET s1 == IF angle < 170 THEN [self EXCEPT !.stage = "down"] ELSE self
        s2 == IF angle > 190 \/ (angle < 165 /\ s1.stage = "down")
              THEN [s1 EXCEPT !.stage = "up", !.counter = @ + 1]
              ELSE s1
    IN  Effect(s2, clk)

\* self.current_exercise.process(smoothed); lm.f is what the class reads from the joints
process(self, clk, ds, lm) ==
    CASE self.name = "Squats" -> Squats_process(self, clk, ds, lm.f)
      [] self.name = "Sit-to-Stand" -> SitToStand_process(self, clk, ds, lm.f)
      [] self.name = "Marching" -> Marching_process(self, clk, ds, lm.f[1], lm.f[2])
      [] self.name = "Leg Raises" -> LegRaises_process(self, clk, ds, lm.f)
      [] self.name = "Wall Push-ups" -> WallPushups_process(self, clk, ds, lm.f)
      [] self.name = "Standing Hip Abduction" -> StandingHipAbduction_process(self, clk, ds, lm.f)
      [] self.name = "Standing Hip Extension" -> StandingHipExtension_process(self, clk, lm.f)
      [] self.name = "Heel Raises" -> HeelRaises_process(self, clk, ds, lm.f)
      [] self.name = "Forward Arm Raises" -> ForwardArmRaises_process(self, clk, ds, lm.f)
      [] self.name = "Side Arm Raises" -> SideArmRaises_process(self, clk, ds, lm.f)

\* posture of a pose: <<knee inside the ankle by more than 0.02, torso more than
\* 25 degrees from the vertical>>
Upright == <<FALSE, FALSE>>

Collapsed == <<TRUE, TRUE>>

\* the landmarks a frame may show each exercise: hip-centre x, the joint metric and
\* the posture; one pose starts a rep and two poses complete it
Landmarks(name) ==
    CASE name = "Squats" -> {<<5000, 170, Upright>>, <<5200, 130, Upright>>, <<5000, 120, Collapsed>>}
      [] name = "Sit-to-Stand" -> {<<5000, 5, Upright>>, <<5200, 18, Upright>>, <<5000, 25, Collapsed>>}
      [] name = "Marching" -> {<<5000, <<6, -3>>, Upright>>, <<5200, <<-3, 6>>, Upright>>, <<5000, <<-3, 2>>, Collapsed>>}
      [] name = "Leg Raises" -> {<<5000, 170, Upright>>, <<5200, 140, Upright>>, <<5000, 120, Collapsed>>}
      [] name = "Wall Push-ups" -> {<<5000, 160, Upright>>, <<5200, 120, Upright>>, <<5000, 100, Collapsed>>}
      [] name = "Standing Hip Abduction" -> {<<5000, 175, Upright>>, <<5200, 160, Upright>>, <<5000, 150, Collapsed>>}
      [] name = "Standing Hip Extension" -> {<<5000, 175, Upright>>, <<5200, 168, Upright>>, <<5000, 160, Collapsed>>}
      [] name = "Heel Raises" -> {<<5000, 1, Upright>>, <<5200, 4, Upright>>, <<5000, 6, Collapsed>>}
      [] name = "Forward Arm Raises" -> {<<5000, 20, Upright>>, <<5200, 60, Upright>>, <<5000, 90, Collapsed>>}
      [] name = "Side Arm Raises" -> {<<5000, 20, Upright>>, <<5200, 60, Upright>>, <<5000, 90, Collapsed>>}

\* a landmark vector as the record the pipeline reads
Landmark(p) ==
    [hip_x |-> p[1], f |-> p[2], knee_inward |-> p[3][1], forward_lean |-> p[3][2]]

(***************************************************************************)
(* FeedbackEngine (pipeline/feedback.py).  A rule is a record; its         *)
(* condition_fn is the name of the function.  A condition evaluates to     *)
(* "True", "False" or "raises".  A context is a function from its keys.    *)
(***************************************************************************)
FeedbackRule(name, condition_fn, message, priority) ==
    [name |-> name, condition_fn |-> condition_fn, message |-> message,
     priority |-> priority]

FeedbackEngine_init == [rules |-> <<>>]

\* context.get(key, default)
Get(context, key, default) == IF key \in DOMAIN context THEN context[key] ELSE default

Bool(b) == IF b THEN "True" ELSE "False"

\* rule.condition_fn(landmarks, context); landmarks is None or Some(landmark vector).
\* The last three functions are those of rules added from outside the module.
Condition(condition_fn, landmarks, context) ==
    CASE condition_fn = "_knee_valgus_check" ->
           IF landmarks = None THEN "raises" ELSE Bool(Val(landmarks).knee_inward)
      [] condition_fn = "_excessive_forward_lean" ->
           IF landmarks = None THEN "raises" ELSE Bool(Val(landmarks).forward_lean)
      [] condition_fn = "_left_right_asymmetry" ->
           Bool(Get(context, "asymmetry_value", 0) > 15)
      [] condition_fn = "_poor_depth" ->
           LET rom_ == Get(context, "current_rom", 0)
               target == Get(context, "target_rom", 90)
           IN  Bool(rom_ > 0 /\ 10 * rom_ < target * 6)
      [] condition_fn = "_too_fast" ->
           LET rep_time_ == Get(context, "rep_time", 0)
               ideal == Get(context, "ideal_rep_time", 3)
           IN  Bool(rep_time_ > 0 /\ 2 * rep_time_ < ideal)
      [] condition_fn = "lambda: True" -> "True"
      [] condition_fn = "lambda: False" -> "False"
      [] condition_fn = "lambda: 1/0" -> "raises"

\* list.sort(key=lambda r: r.priority): a stable sort
RECURSIVE SortByPriority(_)
SortByPriority(rules) ==
    IF rules = <<>> THEN <<>>
    ELSE LET front == SortByPriority(SubSeq(rules, 1, Len(rules) - 1))
             r == rules[Len(rules)]
             k == Cardinality({i \in 1..Len(front) : front[i].priority <= r.priority})
         IN  SubSeq(front, 1, k) \o <<r>> \o SubSeq(front, k + 1, Len(front))

Mut_add_rule_no_sort(engine, rule) == [engine EXCEPT !.rules = Append(@, rule)]

FeedbackEngine_add_rule(engine, rule) ==
    [engine EXCEPT !.rules = SortByPriority(Append(@, rule))]

\* the loop of evaluate() over rules[i..], with the messages triggered so far
RECURSIVE EvaluateFrom(_, _, _, _, _)
EvaluateFrom(rules, i, landmarks, context, triggered) ==
    IF i > Len(rules) THEN triggered
    ELSE EvaluateFrom(rules, i + 1, landmarks, context,
             IF Condition(rules[i].condition_fn, landmarks, context) = "True"
             THEN Append(triggered, rules[i].message)
             ELSE triggered)

Mut_evaluate_stops_at_raise(engine, landmarks, context) ==
    LET bad == {i \in 1..Len(engine.rules) :
                  Condition(engine.rules[i].condition_fn, landmarks, context) = "raises"}
        n == IF bad = {} THEN Len(engine.rules) ELSE MinOf(bad) - 1
    IN  EvaluateFrom(SubSeq(engine.rules, 1, n), 1, landmarks, context, <<>>)

FeedbackEngine_evaluate(engine, landmarks, context) ==
    EvaluateFrom(engine.rules, 1, landmarks, context, <<>>)

COMMON_RULES ==
    <<FeedbackRule("knee_valgus", "_knee_valgus_check", "Keep knees aligned with toes", 1),
      FeedbackRule("forward_lean", "_excessive_forward_lean", "Keep chest upright", 2),
      FeedbackRule("asymmetry", "_left_right_asymmetry", "Distribute weight evenly", 3),
      FeedbackRule("poor_depth", "_poor_depth", "Try to go deeper for full range", 4),
      FeedbackRule("too_fast", "_too_fast", "Slow down for controlled tempo", 5)>>

RECURSIVE AddRules(_, _)
AddRules(engine, rules) ==
    IF rules = <<>> THEN engine
    ELSE AddRules(FeedbackEngine_add_rule(engine, Head(rules)), Tail(rules))

create_default_feedback_engine == AddRules(FeedbackEngine_init, COMMON_RULES)

(***************************************************************************)
(* Session (pipeline/session.py): exercise_name, end_time, the reps and    *)
(* the feedback events.  rom_value and rep_time of a RepRecord are         *)
(* fractions.                                                              *)
(***************************************************************************)
Session_init(exercise_name) ==
    [exercise_name |-> exercise_name, end_time |-> None, reps |-> <<>>,
     feedback_events |-> <<>>]

Mut_Session_add_rep_counts_from_zero(s, scores, rom_value, rep_t, feedback) ==
    [s EXCEPT !.reps = Append(@,
        [rep_number |-> Len(s.reps),
         rom_score |-> scores.rom_score,
         stability_score |-> scores.stability_score,
         tempo_score |-> scores.tempo_score,
         asymmetry_score |-> scores.asymmetry_score,
         final_score |-> scores.final_score,
         rom_value |-> rom_value,
         rep_time |-> rep_t,
         feedback |-> feedback]),
       !.feedback_events = @ \o feedback]

\* add_rep; feedback is a list of strings (None and [] are both <<>>)
Session_add_rep(s, scores, rom_value, rep_t, feedback) ==
    [s EXCEPT !.reps = Append(@,
        [rep_number |-> Len(s.reps) + 1,
         rom_score |-> scores.rom_score,
         stability_score |-> scores.stability_score,
         tempo_score |-> scores.tempo_score,
         asymmetry_score |-> scores.asymmetry_score,
         final_score |-> scores.final_score,
         rom_value |-> rom_value,
         rep_time |-> rep_t,
         feedback |-> feedback]),
       !.feedback_events = @ \o feedback]

Session_end_session(s, t) == [s EXCEPT !.end_time = Some(t)]

Session_total_reps(s) == Len(s.reps)

RECURSIVE SumFinal(_)
SumFinal(reps) == IF reps = <<>> THEN 0 ELSE Head(reps).final_score + SumFinal(Tail(reps))

\* avg_final_score as a fraction (in tenths, as the scores)
Session_avg_final_score(s) ==
    IF s.reps = <<>> THEN <<0, 1>> ELSE <<SumFinal(s.reps), Len(s.reps)>>

\* summary()["avg_final_score"]: round(avg_final_score, 1), in tenths
Session_summary_avg_final_score(s) ==
    LET a == Session_avg_final_score(s) IN Round1(a[1], 10 * a[2])

\* sum(r.<key> for r in reps)
RECURSIVE SumScore(_, _)
SumScore(reps, key) ==
    IF reps = <<>> THEN 0 ELSE Head(reps)[key] + SumScore(Tail(reps), key)

Session_avg_rom_score(s) ==
    IF s.reps = <<>> THEN <<0, 1>> ELSE <<SumScore(s.reps, "rom_score"), Len(s.reps)>>

Session_avg_stability_score(s) ==
    IF s.reps = <<>> THEN <<0, 1>>
    ELSE <<SumScore(s.reps, "stability_score"), Len(s.reps)>>

Mut_avg_tempo_score_of_stability(s) ==
    IF s.reps = <<>> THEN <<0, 1>>
    ELSE <<SumScore(s.reps, "stability_score"), Len(s.reps)>>

Session_avg_tempo_score(s) ==
    IF s.reps = <<>> THEN <<0, 1>> ELSE <<SumScore(s.reps, "tempo_score"), Len(s.reps)>>

Session_avg_asymmetry_score(s) ==
    IF s.reps = <<>> THEN <<0, 1>>
    ELSE <<SumScore(s.reps, "asymmetry_score"), Len(s.reps)>>

\* the elements of a list
Range(l) == {l[i] : i \in 1..Len(l)}

\* list(set(l)): the set keeps one of each element and fixes no order, so the
\* result is any list that holds each element of l once
ListOfSet(l) ==
    {m \in [1..Cardinality(Range(l)) -> Range(l)] : Range(m) = Range(l)}

Mut_summary_feedback_events_not_a_set(s) == {s.feedback_events}

\* the values summary()["feedback_events"] may take
Session_summary_feedback_events(s) == ListOfSet(s.feedback_events)

\* round(n/d, 2) in hundredths, for n/d >= 0
Round2(n, d) == Round1(10 * n, d)

\* summary() with the given value of feedback_events; the averages are rounded to
\* one decimal (tenths); start_time and duration_seconds are not modelled
Session_summary(s, events) ==
    [exercise |-> s.exercise_name,
     total_reps |-> Session_total_reps(s),
     avg_final_score |-> Session_summary_avg_final_score(s),
     avg_rom_score |-> Round1(Session_avg_rom_score(s)[1], 10 * Session_avg_rom_score(s)[2]),
     avg_stability_score |-> Round1(Session_avg_stability_score(s)[1],
                                    10 * Session_avg_stability_score(s)[2]),
     avg_tempo_score |-> Round1(Session_avg_tempo_score(s)[1],
                                10 * Session_avg_tempo_score(s)[2]),
     avg_asymmetry_score |-> Round1(Session_avg_asymmetry_score(s)[1],
                                    10 * Session_avg_asymmetry_score(s)[2]),
     feedback_events |-> events]

\* one entry of data["reps"]: rom_value in tenths, rep_time in hundredths
RepEntry(r) ==
    [rep |-> r.rep_number, rom_score |-> r.rom_score,
     stability_score |-> r.stability_score, tempo_score |-> r.tempo_score,
     asymmetry_score |-> r.asymmetry_score, final_score |-> r.final_score,
     rom_value |-> Round1(r.rom_value[1], r.rom_value[2]),
     rep_time |-> Round2(r.rep_time[1], r.rep_time[2]),
     feedback |-> r.feedback]

Mut_to_json_newest_first(s, events) ==
    [summary |-> Session_summary(s, events),
     reps |-> [i \in 1..Len(s.reps) |-> RepEntry(s.reps[Len(s.reps) + 1 - i])]]

\* to_json(): the document written, as the value json.loads reads back from it
\* (json.dumps and json.loads preserve the numbers, strings and lists of data);
\* the keys of summary() are kept apart from the "reps" key
Session_to_json(s, events) ==
    [summary |-> Session_summary(s, events),
     reps |-> [i \in 1..Len(s.reps) |-> RepEntry(s.reps[i])]]

(***************************************************************************)
(* ProgressionState (pipeline/progression.py).  Session scores are in      *)
(* tenths, the two multipliers in hundredths.  The `reason` text of a      *)
(* result is display only and is not modelled; the keys a result lacks are *)
(* None.                                                                   *)
(***************************************************************************)
ProgressionState_init ==
    [session_scores |-> <<>>, target_reps |-> 10, target_rom_multiplier |-> 100,
     sway_tolerance_multiplier |-> 100]

Mut_record_session_replaces(p, avg_score) == [p EXCEPT !.session_scores = <<avg_score>>]

ProgressionState_record_session(p, avg_score) ==
    [p EXCEPT !.session_scores = Append(@, avg_score)]

\* the number of scores > 85 at the end of the list
RECURSIVE CountGood(_)
CountGood(scores) ==
    IF scores = <<>> THEN 0
    ELSE IF Last(scores) > 850 THEN 1 + CountGood(SubSeq(scores, 1, Len(scores) - 1))
    ELSE 0

Mut_consecutive_good_sessions_no_break(p) ==
    Cardinality({i \in 1..Len(p.session_scores) : p.session_scores[i] > 850})

ProgressionState_consecutive_good_sessions(p) == CountGood(p.session_scores)

ProgressionResult(action, p) ==
    [action |-> action,
     new_target_reps |-> IF p = None THEN None ELSE Some(Val(p).target_reps),
     rom_multiplier |-> IF p = None THEN None ELSE Some(Val(p).target_rom_multiplier),
     sway_multiplier |-> IF p = None THEN None ELSE Some(Val(p).sway_tolerance_multiplier)]

Mut_compute_progression_unclamped(p) ==
    IF p.session_scores = <<>>
    THEN [self |-> p, result |-> ProgressionResult("none", None)]
    ELSE IF ProgressionState_consecutive_good_sessions(p) >= 3
    THEN LET q == [p EXCEPT !.target_reps = @ + 2,
                            !.target_rom_multiplier = Min2(@ + 5, 150),
                            !.sway_tolerance_multiplier = Max2(@ - 10, 50)]
         IN  [self |-> q, result |-> ProgressionResult("upgrade", Some(q))]
    ELSE IF Last(p.session_scores) < 600
    THEN LET q == [p EXCEPT !.target_reps = @ - 2,
                            !.target_rom_multiplier = Max2(@ - 5, 70),
                            !.sway_tolerance_multiplier = Min2(@ + 10, 200)]
         IN  [self |-> q, result |-> ProgressionResult("regress", Some(q))]
    ELSE [self |-> p, result |-> ProgressionResult("maintain", None)]

\* compute_progression(): the state it leaves (self) and the dict it returns (result)
Mut_compute_progression_consumes_streak(p) ==
    IF p.session_scores = <<>>
    THEN [self |-> p, result |-> ProgressionResult("none", None)]
    ELSE IF ProgressionState_consecutive_good_sessions(p) >= 3
            /\ ProgressionState_consecutive_good_sessions(p) % 3 = 0
    THEN LET q == [p EXCEPT !.target_reps = Min2(@ + 2, 30),
                            !.target_rom_multiplier = Min2(@ + 5, 150),
                            !.sway_tolerance_multiplier = Max2(@ - 10, 50)]
         IN  [self |-> q, result |-> ProgressionResult("upgrade", Some(q))]
    ELSE IF Last(p.session_scores) < 600
    THEN LET q == [p EXCEPT !.target_reps = Max2(@ - 2, 5),
                            !.target_rom_multiplier = Max2(@ - 5, 70),
                            !.sway_tolerance_multiplier = Min2(@ + 10, 200)]
         IN  [self |-> q, result |-> ProgressionResult("regress", Some(q))]
    ELSE [self |-> p, result |-> ProgressionResult("maintain", None)]

ProgressionState_compute_progression(p) ==
    IF p.session_scores = <<>>
    THEN [self |-> p, result |-> ProgressionResult("none", None)]
    ELSE IF ProgressionState_consecutive_good_sessions(p) >= 3
    THEN LET q == [p EXCEPT !.target_reps = Min2(@ + 2, 30),
                            !.target_rom_multiplier = Min2(@ + 5, 150),
                            !.sway_tolerance_multiplier = Max2(@ - 10, 50)]
         IN  [self |-> q, result |-> ProgressionResult("upgrade", Some(q))]
    ELSE IF Last(p.session_scores) < 600
    THEN LET q == [p EXCEPT !.target_reps = Max2(@ - 2, 5),
                            !.target_rom_multiplier = Max2(@ - 5, 70),
                            !.sway_tolerance_multiplier = Min2(@ + 10, 200)]
         IN  [self |-> q, result |-> ProgressionResult("regress", Some(q))]
    ELSE [self |-> p, result |-> ProgressionResult("maintain", None)]

\* the file progression_state.json: absent, not parseable as a JSON object, or the
\* JSON object save() writes
FileMissing == <<"missing">>

FileMalformed == <<"malformed">>

FileWith(p) == <<"json", p>>

ProgressionState_save(p) == FileWith(p)

\* load() raises when json.load or data.get does
ProgressionState_load_raises(file) == file = FileMalformed

\* the state load() leaves (when it raises, nothing was assigned yet)
ProgressionState_load(p, file) ==
    IF file = FileMissing \/ ProgressionState_load_raises(file) THEN p
    ELSE [session_scores |-> file[2].session_scores,
          target_reps |-> file[2].target_reps,
          target_rom_multiplier |-> file[2].target_rom_multiplier,
          sway_tolerance_multiplier |-> file[2].sway_tolerance_multiplier]

(***************************************************************************)
(* App (app.py)                                                            *)
(***************************************************************************)
\* the exercises the user picks in the dropdown (a subset of EXERCISES: one per
\* shape of process(), the others differ in thresholds only)
Choices == {"Squats", "Sit-to-Stand", "Marching", "Standing Hip Extension"}

\* clock advances at the reads of _on_rep_start and of TempoTracker.complete_rep
\* (first and second read): at most one tick passes inside a handler
Advances == {<<0, 0, 0>>, <<0, 1, 0>>, <<0, 0, 1>>}

Init ==
    /\ is_running = FALSE
    /\ pending = 0
    /\ exercise_var = FirstExercise
    /\ current_exercise = ExerciseBase_init(FirstExercise)
    /\ smoother = EMALandmarkSmoother_init
    /\ sway_tracker = SwayTracker_init(30)
    /\ session = None
    /\ now = 0
    /\ rom = None
    /\ rep_time = None
    /\ op = "none"
    /\ samples = {}
    /\ rep_samples = {}
    /\ first_start = None
    /\ last_complete = None
    /\ overwritten = FALSE
    /\ hook_calls = 0
    /\ switched = FALSE
    /\ progression = ProgressionState_init
    /\ progression_file = FileMissing
    /\ prog = None
    /\ arrivals = <<>>
    /\ frames = 0
    /\ feedback_engine = create_default_feedback_engine
    /\ engine_feedback = None
    /\ scoring = None
    /\ landmark_call = None

\* the history variables of the ROM tracker after a reset of the exercise
HistoryReset ==
    /\ rom' = None
    /\ rep_time' = None
    /\ samples' = {}
    /\ rep_samples' = {}

\* the history variables after a call of process() with effect e, from the values given
HistoryAfter(e, sam, rsam, r, rt) ==
    LET all == IF e.sample # None THEN sam \cup {Val(e.sample)} ELSE sam
    IN  /\ samples' = IF e.hooks > 0 THEN {} ELSE all
        /\ rep_samples' = IF e.hooks > 0 THEN all ELSE rsam
        /\ rom' = IF e.rom # None THEN e.rom ELSE r
        /\ rep_time' = IF e.rep_time # None THEN e.rep_time ELSE rt

\* update_frame, Pipeline Step 4: the context handed to feedback_engine.evaluate
Context(ex, current_sway) ==
    [sway |-> current_sway,
     current_rom |-> IF ex.rom_tracker.current_max > -Inf
                     THEN ex.rom_tracker.current_max - ex.rom_tracker.current_min
                     ELSE 0,
     target_rom |-> Config(ex.name).target_rom,
     ideal_rep_time |-> Config(ex.name).ideal_rep_time]

\* update_frame, Pipeline Step 5: record a rep that was just completed
RecordRep(sess, ex, feedback) ==
    IF ex.rep_completed /\ ex.last_rep_scores # None
    THEN Some(Session_add_rep(Val(sess), Val(ex.last_rep_scores),
                              ROMTracker_average_rom(ex.rom_tracker),
                              TempoTracker_average_tempo(ex.tempo_tracker),
                              feedback))
    ELSE sess

\* update_frame on a frame with a detected pose (lines 249-295), from the given
\* pipeline state; e is the effect of current_exercise.process(smoothed)
PoseFrame(e, sm, sw, sess, lm) ==
    /\ smoother' = EMALandmarkSmoother_smooth(sm, lm)
    /\ sway_tracker' = SwayTracker_update(sw, lm.hip_x)
    /\ current_exercise' = e.self
    /\ session' = RecordRep(sess, e.self,
                            FeedbackEngine_evaluate(feedback_engine, Some(lm),
                                Context(e.self, sway_tracker'.current_sway)))
    /\ now' = e.clk

\* App.change_exercise(choice).  The instances of EXERCISES other than the current
\* one are never read or written, and reset() overwrites every field of the chosen
\* one, so only the current instance is kept.
change_exercise(choice) ==
    /\ exercise_var' = choice
    /\ current_exercise' = ExerciseBase_reset(
           IF choice = current_exercise.name THEN current_exercise
           ELSE ExerciseBase_init(choice))
    /\ HistoryReset
    /\ switched' = TRUE
    /\ UNCHANGED <<is_running, pending, smoother, sway_tracker, session, now, op,
                   first_start, last_complete, overwritten, hook_calls, progression,
                   progression_file, prog, arrivals, feedback_engine, engine_feedback, scoring, landmark_call, frames>>

\* App.toggle_analysis when the camera cannot be opened: it returns
toggle_analysis_no_camera ==
    /\ ~is_running
    /\ UNCHANGED vars

\* App.toggle_analysis, start branch, with the update_frame() call that ends it;
\* the first frame shows a pose
toggle_analysis_start_pose(lm, d0, ds) ==
    /\ ~is_running
    /\ is_running' = TRUE
    /\ \E e \in {process(ExerciseBase_reset(current_exercise), Read(now, d0), ds, lm)} :
           /\ PoseFrame(e, EMALandmarkSmoother_reset(smoother),
                        SwayTracker_reset(sway_tracker),
                        Some(Session_init(exercise_var)), lm)
           /\ HistoryAfter(e, {}, {}, None, None)
           /\ hook_calls' = e.hooks
    /\ pending' = pending + 1
    /\ switched' = FALSE
    /\ frames' = frames + 1
    /\ UNCHANGED <<exercise_var, op, first_start, last_complete, overwritten,
                   progression, progression_file, prog, arrivals, feedback_engine, engine_feedback, scoring, landmark_call>>

\* App.toggle_analysis, start branch; the first frame shows no pose (or none is read)
toggle_analysis_start_no_pose(d0) ==
    /\ ~is_running
    /\ is_running' = TRUE
    /\ current_exercise' = ExerciseBase_reset(current_exercise)
    /\ smoother' = EMALandmarkSmoother_reset(smoother)
    /\ sway_tracker' = SwayTracker_reset(sway_tracker)
    /\ session' = Some(Session_init(exercise_var))
    /\ now' = Read(now, d0)
    /\ HistoryReset
    /\ hook_calls' = 0
    /\ pending' = pending + 1
    /\ switched' = FALSE
    /\ frames' = frames + 1
    /\ UNCHANGED <<exercise_var, op, first_start, last_complete, overwritten,
                   progression, progression_file, prog, arrivals, feedback_engine, engine_feedback, scoring, landmark_call>>

Mut_toggle_analysis_stop_computes_first(d0) ==
    /\ is_running
    /\ is_running' = FALSE
    /\ now' = Read(now, d0)
    /\ session' = IF session # None THEN Some(Session_end_session(Val(session), now'))
                  ELSE session
    /\ IF session # None
       THEN \E c \in {ProgressionState_compute_progression(progression)} :
                /\ progression' = ProgressionState_record_session(c.self,
                                      Session_summary_avg_final_score(Val(session)))
                /\ prog' = Some(c.result)
                /\ progression_file' = ProgressionState_save(progression')
       ELSE UNCHANGED <<progression, prog, progression_file>>
    /\ UNCHANGED <<pending, exercise_var, current_exercise, smoother, sway_tracker, rom,
                   rep_time, op, samples, rep_samples, first_start, last_complete,
                   overwritten, hook_calls, switched, arrivals, feedback_engine, engine_feedback, scoring, landmark_call, frames>>

\* App.toggle_analysis, stop branch: the session is ended and summarised, its average
\* is recorded in the progression state, the progression is computed and saved
toggle_analysis_stop(d0) ==
    /\ is_running
    /\ is_running' = FALSE
    /\ now' = Read(now, d0)
    /\ session' = IF session # None THEN Some(Session_end_session(Val(session), now'))
                  ELSE session
    /\ IF session # None
       THEN \E c \in {ProgressionState_compute_progression(
                         ProgressionState_record_session(progression,
                             Session_summary_avg_final_score(Val(session))))} :
                /\ progression' = c.self
                /\ prog' = Some(c.result)
                /\ progression_file' = ProgressionState_save(c.self)
       ELSE UNCHANGED <<progression, prog, progression_file>>
    /\ UNCHANGED <<pending, exercise_var, current_exercise, smoother, sway_tracker, rom,
                   rep_time, op, samples, rep_samples, first_start, last_complete,
                   overwritten, hook_calls, switched, arrivals, feedback_engine, engine_feedback, scoring, landmark_call, frames>>

\* a scheduled update_frame fires while analysis runs and the frame shows a pose
update_frame_pose(lm, d0, ds) ==
    /\ pending > 0
    /\ is_running
    /\ \E e \in {process(current_exercise, Read(now, d0), ds, lm)} :
           /\ PoseFrame(e, smoother, sway_tracker, session, lm)
           /\ HistoryAfter(e, samples, rep_samples, rom, rep_time)
           /\ hook_calls' = hook_calls + e.hooks
    /\ frames' = frames + 1
    /\ UNCHANGED <<is_running, pending, exercise_var, op, first_start, last_complete,
                   overwritten, switched, progression, progression_file, prog, arrivals, feedback_engine, engine_feedback, scoring, landmark_call>>

\* a scheduled update_frame fires while analysis runs; no frame is read, no pose is
\* detected, or the detector raises: nothing but the clock changes
update_frame_no_pose(d0) ==
    /\ pending > 0
    /\ is_running
    /\ now' = Read(now, d0)
    /\ UNCHANGED <<is_running, pending, exercise_var, current_exercise, smoother,
                   sway_tracker, session, rom, rep_time, op, samples, rep_samples,
                   first_start, last_complete, overwritten, hook_calls, switched,
                   progression, progression_file, prog, arrivals, feedback_engine, engine_feedback, scoring, landmark_call, frames>>

Mut_update_frame_stopped_processes ==
    /\ pending > 0
    /\ ~is_running
    /\ pending' = pending - 1
    /\ \E p \in Landmarks(current_exercise.name), d0 \in ClockStep, ds \in Advances :
         \E e \in {process(current_exercise, Read(now, d0), ds, Landmark(p))} :
           /\ PoseFrame(e, smoother, sway_tracker, session, Landmark(p))
           /\ HistoryAfter(e, samples, rep_samples, rom, rep_time)
           /\ hook_calls' = hook_calls + e.hooks
    /\ UNCHANGED <<is_running, exercise_var, op, first_start, last_complete,
                   overwritten, switched, progression, progression_file, prog, arrivals, feedback_engine, engine_feedback, scoring, landmark_call,
                   frames>>

\* a scheduled update_frame fires after analysis was stopped: it returns
update_frame_stopped ==
    /\ pending > 0
    /\ ~is_running
    /\ pending' = pending - 1
    /\ UNCHANGED <<is_running, exercise_var, current_exercise, smoother, sway_tracker,
                   session, now, rom, rep_time, op, samples, rep_samples, first_start,
                   last_complete, overwritten, hook_calls, switched, progression,
                   progression_file, prog, arrivals, feedback_engine, engine_feedback, scoring, landmark_call, frames>>

\* App.on_closing: the window is closed; destroy() cancels the scheduled callbacks
\* and ends the main loop, so no handler runs afterwards
on_closing ==
    /\ op # "on_closing"
    /\ is_running' = FALSE
    /\ pending' = 0
    /\ op' = "on_closing"
    /\ UNCHANGED <<exercise_var, current_exercise, smoother, sway_tracker, session, now,
                   rom, rep_time, samples, rep_samples, first_start, last_complete,
                   overwritten, hook_calls, switched, progression, progression_file,
                   prog, arrivals, feedback_engine, engine_feedback, scoring, landmark_call, frames>>

\* the window is open: on_closing has not run
Open == op # "on_closing"

\* the steps of the application, for the exercises the user may pick, the number
\* of frames with a pose a run may process and the number of callbacks that may be
\* scheduled at a time
Step(choices, maxFrames, maxPending) ==
    \/ \E choice \in choices : Open /\ change_exercise(choice)
    \/ Open /\ toggle_analysis_no_camera
    \/ \E p \in Landmarks(current_exercise.name), d0 \in ClockStep, ds \in Advances :
         /\ Open
         /\ pending < maxPending
         /\ frames < maxFrames
         /\ toggle_analysis_start_pose(Landmark(p), d0, ds)
    \/ \E d0 \in ClockStep :
         /\ Open
         /\ pending < maxPending
         /\ frames < maxFrames
         /\ toggle_analysis_start_no_pose(d0)
    \/ \E d0 \in ClockStep : Open /\ toggle_analysis_stop(d0)
    \/ \E p \in Landmarks(current_exercise.name), d0 \in ClockStep, ds \in Advances :
         /\ Open
         /\ frames < maxFrames
         /\ update_frame_pose(Landmark(p), d0, ds)
    \/ \E d0 \in ClockStep : Open /\ update_frame_no_pose(d0)
    \/ Open /\ update_frame_stopped
    \/ on_closing

Next == Step(Choices, MaxFrames, MaxPending)

Spec == Init /\ [][Next]_vars

\* the application with one exercise and runs long enough to fill the sway estimate
NextSway == Step({FirstExercise}, MaxSwayFrames, MaxPending)

\* the application on one exercise, where Start may be pressed again while a
\* callback scheduled before the last Stop is still waiting
NextLoops == Step({FirstExercise}, MaxFrames, MaxLoops)

SpecLoops == Init /\ [][NextLoops]_vars

SpecSway == Init /\ [][NextSway]_vars

(***************************************************************************)
(* The trackers driven directly: the public methods of a ROMTracker, and   *)
(* of a TempoTracker with the start hook of its exercise, called in any    *)
(* order.  The trackers are those of current_exercise.                     *)
(***************************************************************************)
\* the angles passed to ROMTracker.update
Angles == {30, 80, 120}

AppState ==
    <<is_running, pending, exercise_var, smoother, sway_tracker, session, hook_calls,
      switched, progression, progression_file, prog, arrivals, feedback_engine, engine_feedback, scoring, landmark_call, frames>>

Call_ROMTracker_update(angle) ==
    /\ current_exercise' =
           [current_exercise EXCEPT !.rom_tracker = ROMTracker_update(@, angle)]
    /\ samples' = samples \cup {angle}
    /\ op' = "ROMTracker.update"
    /\ UNCHANGED <<AppState, now, rom, rep_time, rep_samples, first_start,
                   last_complete, overwritten>>

Call_ROMTracker_complete_rep ==
    /\ rom' = Some(ROMTracker_rom(current_exercise.rom_tracker))
    /\ current_exercise' =
           [current_exercise EXCEPT !.rom_tracker = ROMTracker_complete_rep(@)]
    /\ rep_samples' = samples
    /\ samples' = {}
    /\ op' = "ROMTracker.complete_rep"
    /\ UNCHANGED <<AppState, now, rep_time, first_start, last_complete, overwritten>>

Call_ROMTracker_reset ==
    /\ current_exercise' = [current_exercise EXCEPT !.rom_tracker = ROMTracker_reset(@)]
    /\ rom' = None
    /\ samples' = {}
    /\ rep_samples' = {}
    /\ op' = "ROMTracker.reset"
    /\ UNCHANGED <<AppState, now, rep_time, first_start, last_complete, overwritten>>

NextROM ==
    \/ \E angle \in Angles : Call_ROMTracker_update(angle)
    \/ /\ Len(current_exercise.rom_tracker.rep_roms) < MaxReps
       /\ Call_ROMTracker_complete_rep
    \/ Call_ROMTracker_reset

SpecROM == Init /\ [][NextROM]_vars

Call_TempoTracker_start_rep(d) ==
    /\ now' = Read(now, d)
    /\ current_exercise' =
           [current_exercise EXCEPT !.tempo_tracker = TempoTracker_start_rep(@, now')]
    /\ first_start' = IF first_start = None THEN Some(now') ELSE first_start
    /\ overwritten' = (overwritten \/ current_exercise.tempo_tracker.rep_start_time # None)
    /\ op' = "TempoTracker.start_rep"
    /\ UNCHANGED <<AppState, rom, rep_time, samples, rep_samples, last_complete>>

Call_on_rep_start(d) ==
    /\ \E e \in {on_rep_start(Effect(current_exercise, now), d)} :
           /\ current_exercise' = e.self
           /\ now' = e.clk
           /\ first_start' = IF first_start = None THEN e.started ELSE first_start
    /\ op' = "_on_rep_start"
    /\ UNCHANGED <<AppState, rom, rep_time, samples, rep_samples, last_complete,
                   overwritten>>

\* d1, d2: the advances of the clock at the two reads (it reads only with a pending start)
Call_TempoTracker_complete_rep(d1, d2) ==
    LET t == current_exercise.tempo_tracker
        reads == t.rep_start_time # None
        t1 == IF reads THEN Read(now, d1) ELSE now
        t2 == IF reads THEN Read(t1, d2) ELSE now
    IN  /\ rep_time' = Some(TempoTracker_rep_time(t, t1))
        /\ current_exercise' =
               [current_exercise EXCEPT !.tempo_tracker = TempoTracker_complete_rep(@, t1, t2)]
        /\ now' = t2
        /\ last_complete' = IF reads THEN Some(t1) ELSE last_complete
        /\ op' = "TempoTracker.complete_rep"
        /\ UNCHANGED <<AppState, rom, samples, rep_samples, first_start, overwritten>>

Call_TempoTracker_reset ==
    /\ current_exercise' =
           [current_exercise EXCEPT !.tempo_tracker = TempoTracker_reset(@)]
    /\ rep_time' = None
    /\ first_start' = None
    /\ last_complete' = None
    /\ overwritten' = FALSE
    /\ op' = "TempoTracker.reset"
    /\ UNCHANGED <<AppState, now, rom, samples, rep_samples>>

\* time passes between two calls
Sleep ==
    /\ now < MaxTime
    /\ now' = now + 1
    /\ op' = "sleep"
    /\ UNCHANGED <<AppState, current_exercise, rom, rep_time, samples, rep_samples,
                   first_start, last_complete, overwritten>>

NextTempo ==
    \/ \E d \in ClockStep : Call_TempoTracker_start_rep(d)
    \/ \E d \in ClockStep : Call_on_rep_start(d)
    \/ \E d1 \in ClockStep, d2 \in ClockStep :
         /\ Len(current_exercise.tempo_tracker.rep_times) < MaxReps
         /\ Call_TempoTracker_complete_rep(d1, d2)
    \/ Call_TempoTracker_reset
    \/ Sleep

SpecTempo == Init /\ [][NextTempo]_vars

\* the hip-centre x values passed to SwayTracker.update
HipXs == {5000, 5100, 5200}

SwayRest ==
    <<is_running, pending, exercise_var, current_exercise, smoother, session, now, rom,
      rep_time, samples, rep_samples, first_start, last_complete, overwritten,
      hook_calls, switched, progression, progression_file, prog, frames,
      feedback_engine, engine_feedback, scoring, landmark_call>>

\* SwayTracker(window_size)
Call_SwayTracker_init(window_size) ==
    /\ sway_tracker' = SwayTracker_init(window_size)
    /\ arrivals' = <<>>
    /\ op' = "SwayTracker"
    /\ UNCHANGED SwayRest

Call_SwayTracker_update(hip_center_x) ==
    /\ sway_tracker' = SwayTracker_update(sway_tracker, hip_center_x)
    /\ arrivals' = Append(arrivals, hip_center_x)
    /\ op' = "SwayTracker.update"
    /\ UNCHANGED SwayRest

Call_SwayTracker_reset ==
    /\ sway_tracker' = SwayTracker_reset(sway_tracker)
    /\ arrivals' = <<>>
    /\ op' = "SwayTracker.reset"
    /\ UNCHANGED SwayRest

NextSwayTracker ==
    \/ Call_SwayTracker_init(SmallWindow)
    \/ \E x \in HipXs :
         /\ sway_tracker.window_size = SmallWindow
         /\ Len(arrivals) < MaxUpdates
         /\ Call_SwayTracker_update(x)
    \/ Call_SwayTracker_reset

SpecSwayTracker == Init /\ [][NextSwayTracker]_vars

\* the average scores passed to record_session (in tenths)
Scores == {400, 600, 850, 880, 900, 950}

ProgressionRest ==
    <<is_running, pending, exercise_var, current_exercise, smoother, sway_tracker,
      session, now, rom, rep_time, samples, rep_samples, first_start, last_complete,
      overwritten, hook_calls, switched, arrivals, feedback_engine, engine_feedback, scoring, landmark_call, frames>>

Call_record_session(avg_score) ==
    /\ progression' = ProgressionState_record_session(progression, avg_score)
    /\ op' = "record_session"
    /\ UNCHANGED <<ProgressionRest, progression_file, prog>>

Call_compute_progression ==
    /\ \E c \in {ProgressionState_compute_progression(progression)} :
           /\ progression' = c.self
           /\ prog' = Some(c.result)
    /\ op' = "compute_progression"
    /\ UNCHANGED <<ProgressionRest, progression_file>>

Call_save ==
    /\ progression_file' = ProgressionState_save(progression)
    /\ op' = "save"
    /\ UNCHANGED <<ProgressionRest, progression, prog>>

\* ProgressionState().load(filepath), as App.__init__ calls it on a new state
Call_load ==
    /\ progression' = ProgressionState_load(ProgressionState_init, progression_file)
    /\ op' = IF ProgressionState_load_raises(progression_file) THEN "load raised"
             ELSE "load"
    /\ UNCHANGED <<ProgressionRest, progression_file, prog>>

\* the file is removed or overwritten from outside the program
FileChanges(file) ==
    /\ progression_file' = file
    /\ op' = "file"
    /\ UNCHANGED <<ProgressionRest, progression, prog>>

NextProgression ==
    \/ \E avg_score \in Scores :
         /\ Len(progression.session_scores) < MaxHistory
         /\ Call_record_session(avg_score)
    \/ Call_compute_progression

SpecProgression == Init /\ [][NextProgression]_vars

\* the scores of the sessions recorded when the file is involved
FewScores == {400, 900}

NextLoad ==
    \/ \E avg_score \in FewScores :
         /\ Len(progression.session_scores) < MaxHistory
         /\ Call_record_session(avg_score)
    \/ Call_save
    \/ Call_load
    \/ \E file \in {FileMissing, FileMalformed} : FileChanges(file)

SpecLoad == Init /\ [][NextLoad]_vars

\* the score dicts passed to add_rep (in tenths)
ScoreDicts ==
    {[rom_score |-> 500, stability_score |-> 1000, tempo_score |-> 800,
      asymmetry_score |-> 1000, final_score |-> 700],
     [rom_score |-> 778, stability_score |-> 900, tempo_score |-> 600,
      asymmetry_score |-> 950, final_score |-> 800],
     [rom_score |-> 1000, stability_score |-> 850, tempo_score |-> 1000,
      asymmetry_score |-> 900, final_score |-> 900]}

\* the rom_value and rep_time passed to add_rep
Measures == {<<<<101, 3>>, <<10, 3>>>>}

\* the feedback lists passed to add_rep
Feedbacks ==
    {<<>>, <<"Keep chest upright">>,
     <<"Keep knees aligned with toes", "Keep chest upright">>}

SessionRest ==
    <<is_running, pending, exercise_var, current_exercise, smoother, sway_tracker, rom,
      rep_time, samples, rep_samples, first_start, last_complete, overwritten,
      hook_calls, switched, progression, progression_file, prog, arrivals, frames,
      feedback_engine, engine_feedback, scoring, landmark_call>>

\* Session(exercise_name=...)
Call_Session(exercise_name) ==
    /\ session' = Some(Session_init(exercise_name))
    /\ op' = "Session"
    /\ UNCHANGED <<SessionRest, now>>

Call_add_rep(scores, rom_value, rep_t, feedback) ==
    /\ session # None
    /\ session' = Some(Session_add_rep(Val(session), scores, rom_value, rep_t, feedback))
    /\ op' = "add_rep"
    /\ UNCHANGED <<SessionRest, now>>

Call_end_session(d) ==
    /\ session # None
    /\ now' = Read(now, d)
    /\ session' = Some(Session_end_session(Val(session), now'))
    /\ op' = "end_session"
    /\ UNCHANGED SessionRest

NextSession ==
    \/ \E exercise_name \in {"Squats", "Marching"} : Call_Session(exercise_name)
    \/ \E scores \in ScoreDicts, m \in Measures, feedback \in Feedbacks :
         /\ session # None
         /\ Len(Val(session).reps) < MaxReps
         /\ Call_add_rep(scores, m[1], m[2], feedback)
    \/ \E d \in ClockStep : Call_end_session(d)

SpecSession == Init /\ [][NextSession]_vars

\* the rules added to an engine driven directly: the k-th rule added has the k-th
\* name and message
RuleNames == <<"first", "second", "third", "fourth", "fifth">>

Messages == <<"message 1", "message 2", "message 3", "message 4", "message 5">>

Priorities == {1, 2, 3}

ConditionFns == {"lambda: True", "lambda: False", "lambda: 1/0"}

\* the arguments of the evaluate() calls: no landmark list or a pose, an empty
\* context or one with every key the default rules read
EvalLandmarks(k) ==
    IF k = 2 THEN Some(Landmark(<<5000, 120, Collapsed>>)) ELSE None

EvalContext(k) ==
    IF k = 1 THEN <<>>
    ELSE [current_rom |-> 30, target_rom |-> 90, rep_time |-> 1, ideal_rep_time |-> 3,
          asymmetry_value |-> 20]

FeedbackRest ==
    <<is_running, pending, exercise_var, current_exercise, smoother, sway_tracker,
      session, now, rom, rep_time, samples, rep_samples, first_start, last_complete,
      overwritten, hook_calls, switched, progression, progression_file, prog, arrivals,
      frames, scoring, landmark_call>>

\* FeedbackEngine()
Call_FeedbackEngine ==
    /\ feedback_engine' = FeedbackEngine_init
    /\ op' = "FeedbackEngine"
    /\ engine_feedback' = None
    /\ UNCHANGED FeedbackRest

Call_create_default_feedback_engine ==
    /\ feedback_engine' = create_default_feedback_engine
    /\ op' = "create_default_feedback_engine"
    /\ engine_feedback' = None
    /\ UNCHANGED FeedbackRest

Call_add_rule(rule) ==
    /\ feedback_engine' = FeedbackEngine_add_rule(feedback_engine, rule)
    /\ op' = "add_rule"
    /\ engine_feedback' = None
    /\ UNCHANGED FeedbackRest

Call_evaluate(k) ==
    /\ engine_feedback' =
           Some([call |-> k,
                 returned |-> FeedbackEngine_evaluate(feedback_engine, EvalLandmarks(k),
                                                      EvalContext(k))])
    /\ op' = "evaluate"
    /\ UNCHANGED <<FeedbackRest, feedback_engine>>

NextFeedback ==
    \/ Call_FeedbackEngine
    \/ Call_create_default_feedback_engine
    \/ \E priority \in Priorities, condition_fn \in ConditionFns :
         /\ Len(feedback_engine.rules) < MaxRules
         /\ Call_add_rule(FeedbackRule(RuleNames[Len(feedback_engine.rules) + 1],
                                       condition_fn,
                                       Messages[Len(feedback_engine.rules) + 1],
                                       priority))
    \/ \E k \in 1..3 : Call_evaluate(k)

SpecFeedback == Init /\ [][NextFeedback]_vars

\* the configurations and arguments of the scorer functions called directly: the
\* configuration of Squats, weights above 1, no target and no tolerance, a negative
\* weight; ROMs below 0 and above the target; sways above the tolerance
ScorerConfigs ==
    {Config("Squats"), ExerciseConfig(90, 3, 200, 20, 60, 60, 60),
     ExerciseConfig(0, 3, 0, 20, 40, 30, 30), ExerciseConfig(90, 4, 200, 20, -40, 30, 30)}

UserRoms == {-10, 0, 45, 89, 90, 120}

TargetRoms == {0, 60, 90}

Sways == {0, 100, 500}

RepTimes == 0..9

IdealRepTimes == {3, 4}

PenaltyFactors == {15, 20}

AnglePairs ==
    {<<None, None>>, <<Some(170), None>>, <<None, Some(150)>>, <<Some(170), Some(150)>>,
     <<Some(170), Some(100)>>}

\* the ROMs and durations score_rep is called with
ScoredRoms == {-10, 45, 120}

ScoredRepTimes == {0, 3, 8}

ScorerRest ==
    <<is_running, pending, exercise_var, current_exercise, smoother, sway_tracker,
      session, now, rom, rep_time, samples, rep_samples, first_start, last_complete,
      overwritten, hook_calls, switched, progression, progression_file, prog, arrivals,
      frames, feedback_engine, engine_feedback, landmark_call>>

\* RepScorer(config).score_rep(user_rom, sway, rep_time, left_angle, right_angle)
Call_score_rep(config, user_rom, sway, rep_t, left_angle, right_angle) ==
    /\ scoring' = Some([fn |-> "score_rep",
                        args |-> <<config, user_rom, sway, rep_t, left_angle, right_angle>>,
                        scores |-> Some(score_rep(config, user_rom, sway, rep_t,
                                                  left_angle, right_angle)),
                        score |-> None])
    /\ op' = "score_rep"
    /\ UNCHANGED ScorerRest

Call_compute_tempo_score(rep_t, ideal_rep_time, penalty_factor) ==
    /\ scoring' = Some([fn |-> "compute_tempo_score",
                        args |-> <<rep_t, ideal_rep_time, penalty_factor>>,
                        scores |-> None,
                        score |-> Some(compute_tempo_score(rep_t, ideal_rep_time,
                                                           penalty_factor))])
    /\ op' = "compute_tempo_score"
    /\ UNCHANGED ScorerRest

Call_compute_rom_score(user_rom, target_rom) ==
    /\ scoring' = Some([fn |-> "compute_rom_score",
                        args |-> <<user_rom, target_rom>>,
                        scores |-> None,
                        score |-> Some(compute_rom_score(user_rom, target_rom))])
    /\ op' = "compute_rom_score"
    /\ UNCHANGED ScorerRest

NextScorer ==
    \/ \E config \in ScorerConfigs, user_rom \in ScoredRoms, sway \in Sways,
          rep_t \in ScoredRepTimes, angles \in AnglePairs :
         Call_score_rep(config, user_rom, sway, rep_t, angles[1], angles[2])
    \/ \E rep_t \in RepTimes, ideal_rep_time \in IdealRepTimes,
          penalty_factor \in PenaltyFactors :
         Call_compute_tempo_score(rep_t, ideal_rep_time, penalty_factor)
    \/ \E user_rom \in UserRoms, target_rom \in TargetRoms :
         Call_compute_rom_score(user_rom, target_rom)

SpecScorer == Init /\ [][NextScorer]_vars

\* raw landmarks: visible, hardly visible, and one without a visibility attribute
LmA == [x |-> 5000, y |-> 3000, z |-> 0, visibility |-> Some(90)]

LmB == [x |-> 4000, y |-> 6000, z |-> -1000, visibility |-> Some(20)]

LmC == [x |-> 5200, y |-> 4000, z |-> 500, visibility |-> None]

\* the frames passed to smooth(): the same number of landmarks in each
RawFrames == {<<LmA, LmB>>, <<LmB, LmA>>, <<LmC, LmB>>, <<LmA, LmC>>}

Alphas == {<<3, 10>>, <<1, 2>>}

\* the number of smooth() calls since the filter state was None
RECURSIVE Exponent(_, _)
Exponent(d, b) == IF d <= 1 THEN 0 ELSE 1 + Exponent(d \div b, b)

SmoothedFrames(sm) ==
    IF sm.state = None THEN 0
    ELSE 1 + Exponent(Val(sm.state)[1][1][2], Alpha(sm)[2])

SmootherRest ==
    <<is_running, pending, exercise_var, current_exercise, sway_tracker, session, now,
      rom, rep_time, samples, rep_samples, first_start, last_complete, overwritten,
      hook_calls, switched, progression, progression_file, prog, arrivals, frames,
      feedback_engine, engine_feedback, scoring>>

Call_EMALandmarkSmoother(alpha) ==
    /\ smoother' = EMALandmarkSmoother(alpha)
    /\ landmark_call' = Some([fn |-> "EMALandmarkSmoother", args |-> <<alpha>>,
                              returned |-> <<>>])
    /\ op' = "EMALandmarkSmoother"
    /\ UNCHANGED SmootherRest

Call_smooth(landmarks) ==
    /\ \E r \in {smooth(smoother, landmarks)} :
           /\ smoother' = r.self
           /\ landmark_call' = Some([fn |-> "smooth", args |-> <<landmarks>>,
                                     returned |-> r.landmarks])
    /\ op' = "smooth"
    /\ UNCHANGED SmootherRest

Call_EMALandmarkSmoother_reset ==
    /\ smoother' = EMALandmarkSmoother_reset(smoother)
    /\ landmark_call' = Some([fn |-> "reset", args |-> <<>>, returned |-> <<>>])
    /\ op' = "reset"
    /\ UNCHANGED SmootherRest

NextSmoother ==
    \/ \E alpha \in Alphas : Call_EMALandmarkSmoother(alpha)
    \/ \E landmarks \in RawFrames :
         /\ SmoothedFrames(smoother) < MaxSmooth
         /\ Call_smooth(landmarks)
    \/ Call_EMALandmarkSmoother_reset

SpecSmoother == Init /\ [][NextSmoother]_vars

\* the lists passed to filter_visibility, the thresholds, and the hip centres and
\* torso lengths passed to normalize_landmarks with the lists it returned
RawLists ==
    {<<>>, <<LmA>>, <<LmB>>, <<LmA, LmB>>, <<LmB, LmB>>, <<LmC, LmA>>, <<LmB, LmC, LmA>>,
     <<LmA, LmC, LmB>>}

Thresholds == {VISIBILITY_THRESHOLD, 95}

HipCenters == {<<5000, 5000, 0>>, <<4800, 5500, -200>>}

TorsoLengths == {0, 50, 100, 2500}

SmallTorsos == {-100, 0, 50, 99}

DegenerateTargets == {0, -10}

DegenerateSways == {0, -100}

LandmarkRest ==
    <<is_running, pending, exercise_var, current_exercise, smoother, sway_tracker,
      session, now, rom, rep_time, samples, rep_samples, first_start, last_complete,
      overwritten, hook_calls, switched, progression, progression_file, prog, arrivals,
      frames, feedback_engine, engine_feedback, scoring>>

Call_filter_visibility(landmarks, threshold) ==
    /\ landmark_call' = Some([fn |-> "filter_visibility", args |-> <<landmarks, threshold>>,
                              returned |-> filter_visibility(landmarks, threshold)])
    /\ op' = "filter_visibility"
    /\ UNCHANGED LandmarkRest

Call_normalize_landmarks(processed_landmarks, hip_center, torso_length) ==
    /\ landmark_call' =
           Some([fn |-> "normalize_landmarks",
                 args |-> <<processed_landmarks, hip_center, torso_length>>,
                 returned |-> normalize_landmarks(processed_landmarks, hip_center,
                                                  torso_length)])
    /\ op' = "normalize_landmarks"
    /\ UNCHANGED LandmarkRest

NextLandmarks ==
    \/ \E landmarks \in RawLists, threshold \in Thresholds :
         Call_filter_visibility(landmarks, threshold)
    \/ \E landmarks \in RawLists, threshold \in Thresholds, hip_center \in HipCenters,
          torso_length \in TorsoLengths :
         Call_normalize_landmarks(filter_visibility(landmarks, threshold), hip_center,
                                  torso_length)

SpecLandmarks == Init /\ [][NextLandmarks]_vars

Call_compute_stability_score(sway, acceptable_sway, stability_factor) ==
    /\ scoring' = Some([fn |-> "compute_stability_score",
                        args |-> <<sway, acceptable_sway, stability_factor>>,
                        scores |-> None,
                        score |-> Some(compute_stability_score(sway, acceptable_sway,
                                                               stability_factor))])
    /\ op' = "compute_stability_score"
    /\ UNCHANGED ScorerRest

\* the three divisions of the pipeline, each called with a divisor it must not use
NextGuards ==
    \/ \E user_rom \in UserRoms, target_rom \in DegenerateTargets :
         Call_compute_rom_score(user_rom, target_rom)
    \/ \E sway \in Sways, acceptable_sway \in DegenerateSways :
         Call_compute_stability_score(sway, acceptable_sway, DefaultConfig.stability_factor)
    \/ \E landmarks \in RawLists, hip_center \in HipCenters, torso_length \in SmallTorsos :
         Call_normalize_landmarks(filter_visibility(landmarks, VISIBILITY_THRESHOLD),
                                  hip_center, torso_length)

SpecGuards == Init /\ [][NextGuards]_vars

(***************************************************************************)
(* Properties.                                                             *)
(***************************************************************************)
\* max - min of a set of samples (0 for no sample)
Spread(S) == IF S = {} THEN 0 ELSE MaxOf(S) - MinOf(S)

Scored(ex) == ex.name # "Standing Hip Extension"

Reps == Val(session).reps

\* C1: every angle passed to ROMTracker.update counts for exactly one rep.  The
\* extremes the tracker holds are those of the samples passed since the last
\* complete_rep or reset (none is dropped, none is left from an earlier rep), and
\* the ROM the last complete_rep returned and recorded is max - min over exactly the
\* samples that were passed since the complete_rep (or reset) before it.
C1_RomOverOwnSamples ==
    LET t == current_exercise.rom_tracker
    IN  /\ t.current_max = IF samples = {} THEN -Inf ELSE MaxOf(samples)
        /\ t.current_min = IF samples = {} THEN Inf ELSE MinOf(samples)
        /\ rom # None => /\ Val(rom) = Spread(rep_samples)
                         /\ t.rep_roms # <<>>
                         /\ Last(t.rep_roms) = Val(rom)

\* a second rep was completed whose ROM differs from the one of the first rep
C1_Witness ==
    LET t == current_exercise.rom_tracker
    IN  /\ current_exercise.rep_completed
        /\ Len(t.rep_roms) >= 2
        /\ t.rep_roms[1] # t.rep_roms[2]
        /\ rom = Some(t.rep_roms[2])

\* C2: for every scored exercise, after every frame,
\* len(rom_tracker.rep_roms) = len(tempo_tracker.rep_times) = counter.
C2_TrackersFinalizedTogether ==
    Scored(current_exercise) =>
        /\ Len(current_exercise.rom_tracker.rep_roms) = current_exercise.counter
        /\ Len(current_exercise.tempo_tracker.rep_times) = current_exercise.counter

\* two reps were counted, the second one on the frame just processed
C2_Witness ==
    /\ Scored(current_exercise)
    /\ current_exercise.rep_completed
    /\ current_exercise.counter >= 2
    /\ Len(current_exercise.tempo_tracker.rep_times) >= 2

\* C3: change_exercise resets the smoother and the sway tracker.  While analysis
\* runs the next frame is processed from the state change_exercise leaves, so it
\* must leave no smoother state and an empty sway window.  (When analysis does not
\* run, the next frame comes after toggle_analysis, which resets both.)
C3_SwitchResetsPipeline ==
    [][((\E choice \in Choices : change_exercise(choice)) /\ is_running)
         => (smoother'.state = None /\ sway_tracker'.hip_x_history = <<>>)]_vars

\* C4: Session.add_rep was called once for each call of the rep-complete hook since
\* the session was created, after every step (frames with and without a pose, exercise
\* switches, stop).
C4_OneAddRepPerCompletion ==
    session # None => Len(Reps) = hook_calls

\* a frame without a pose has fired after the frame that completed a rep (the clock
\* has moved on from the re-armed start while rep_completed is still set)
C4_Witness ==
    /\ is_running
    /\ current_exercise.rep_completed
    /\ hook_calls >= 1
    /\ Len(Reps) >= 1
    /\ current_exercise.tempo_tracker.rep_start_time # None
    /\ Val(current_exercise.tempo_tracker.rep_start_time) < now

\* C5: during a running session without an exercise switch, session.total_reps
\* equals the counter of the exercise, for every exercise of EXERCISES.
C5_EveryCountedRepIsRecorded ==
    (is_running /\ ~switched) => Session_total_reps(Val(session)) = current_exercise.counter

\* C6: the RepRecord stored for the rep just completed carries the ROM that
\* ROMTracker.complete_rep returned for it and the duration that
\* TempoTracker.complete_rep returned for it.
C6_RepRecordCarriesRawValues ==
    (session # None /\ current_exercise.rep_completed /\ rom # None /\ Reps # <<>>) =>
        /\ Last(Reps).rom_value[1] = Val(rom) * Last(Reps).rom_value[2]
        /\ Last(Reps).rep_time[1] = Val(rep_time) * Last(Reps).rep_time[2]

\* C7: a rep completed while the sway tracker reports a sway greater than zero has
\* a stability_score below 100 (scores are in tenths).
C7_StabilityFromCurrentSway ==
    (current_exercise.rep_completed /\ current_exercise.last_rep_scores # None
       /\ sway_tracker.current_sway > 0)
    => Val(current_exercise.last_rep_scores).stability_score < 1000

\* C8 as stated: a TempoTracker.start_rep() call with a start pending leaves the
\* pending start unchanged.
C8_StartRepKeepsPendingStart ==
    [][(op' = "TempoTracker.start_rep"
          /\ current_exercise.tempo_tracker.rep_start_time # None)
         => current_exercise'.tempo_tracker.rep_start_time
              = current_exercise.tempo_tracker.rep_start_time]_vars

\* C8 as amended: a call of ExerciseBase._on_rep_start() with a start pending leaves
\* the tempo tracker unchanged; with none pending it records the clock it reads.
C8_OnRepStartKeepsPendingStart ==
    [][op' = "_on_rep_start"
         => current_exercise'.tempo_tracker =
              IF current_exercise.tempo_tracker.rep_start_time # None
              THEN current_exercise.tempo_tracker
              ELSE [current_exercise.tempo_tracker EXCEPT !.rep_start_time = Some(now')]]_vars

\* _on_rep_start() was called with a start pending that lies in the past
C8_Witness ==
    /\ op = "_on_rep_start"
    /\ current_exercise.tempo_tracker.rep_start_time # None
    /\ Val(current_exercise.tempo_tracker.rep_start_time) < now

\* C9: after a TempoTracker.complete_rep() with a start pending, the start is
\* re-armed to the completion instant, and (no start_rep having replaced a pending
\* start) the recorded durations sum to the time of the last completion minus the
\* time of the first start.
C9_RepsChainWithoutGap ==
    LET t == current_exercise.tempo_tracker
    IN  (op = "TempoTracker.complete_rep" /\ t.rep_times # <<>> /\ ~overwritten) =>
            /\ t.rep_start_time = last_complete
            /\ SeqSum(t.rep_times) = Val(last_complete) - Val(first_start)

\* C10: ROMTracker.complete_rep() returns and records a value that is neither
\* negative nor infinite; with no update() since the last complete_rep() or reset()
\* it is 0; after update(30); update(80) it is 50.
C10_EmptyRepIsZero ==
    LET t == current_exercise.rom_tracker
    IN  op = "ROMTracker.complete_rep" =>
            /\ Last(t.rep_roms) = Val(rom)
            /\ Val(rom) >= 0
            /\ Val(rom) < Inf
            /\ rep_samples = {} => Val(rom) = 0
            /\ rep_samples = {30, 80} => Val(rom) = 50

\* update(30); update(80); complete_rep() returned 50 and the complete_rep() that
\* followed it returned 0
C10_Witness ==
    LET t == current_exercise.rom_tracker
    IN  /\ op = "ROMTracker.complete_rep"
        /\ rep_samples = {}
        /\ Len(t.rep_roms) = 2
        /\ t.rep_roms = <<50, 0>>

\* C11: the window of a SwayTracker holds the most recent min(n, capacity) of the n
\* values passed to update() since the reset, in arrival order; the sway is 0 with
\* fewer than 5 values in the window and otherwise the population standard
\* deviation s of the window (to the resolution of the model: s is the integer with
\* s^2 <= variance < (s+1)^2, the variance being (k*sum(x^2) - sum(x)^2) / k^2).
C11_SlidingWindow ==
    LET h == sway_tracker.hip_x_history
        n == Len(arrivals)
        k == Len(h)
        s == sway_tracker.current_sway
        kvar == k * SeqSumSq(h) - SeqSum(h) * SeqSum(h)
    IN  op \in {"SwayTracker", "SwayTracker.update", "SwayTracker.reset"} =>
            /\ k = Min2(n, sway_tracker.window_size)
            /\ h = SubSeq(arrivals, n - k + 1, n)
            /\ k < 5 => s = 0
            /\ k >= 5 => /\ s >= 0
                         /\ k * k * s * s <= kvar
                         /\ kvar < k * k * (s + 1) * (s + 1)

\* two values were evicted from a full window whose sway is not 0
C11_Witness ==
    /\ op = "SwayTracker.update"
    /\ Len(arrivals) = sway_tracker.window_size + 2
    /\ Len(sway_tracker.hip_x_history) = sway_tracker.window_size
    /\ arrivals[1] # arrivals[3]
    /\ sway_tracker.current_sway > 0

\* the decision for a score history, as the claim words it
Decision(scores) ==
    IF scores = <<>> THEN "none"
    ELSE IF Len(scores) >= 3 /\ \A i \in (Len(scores) - 2)..Len(scores) : scores[i] > 850
    THEN "upgrade"
    ELSE IF Last(scores) < 600 THEN "regress"
    ELSE "maintain"

\* C12: compute_progression() returns 'none' with no session recorded, else
\* 'upgrade' when the 3 most recent sessions all scored > 85, else 'regress' when
\* the latest scored < 60, else 'maintain'; history [90, 88, 95] yields 'upgrade',
\* and the single session 40 on the default state yields 'regress' with
\* new_target_reps = 8.
C12_DecisionOrder ==
    [][op' = "compute_progression" =>
         /\ Val(prog').action = Decision(progression.session_scores)
         /\ progression.session_scores = <<900, 880, 950>> => Val(prog').action = "upgrade"
         /\ progression = ProgressionState_record_session(ProgressionState_init, 400)
              => /\ Val(prog').action = "regress"
                 /\ Val(prog').new_target_reps = Some(8)]_vars

\* compute_progression() was called on the history [90, 88, 95] of the default state
C12_Witness ==
    /\ op = "compute_progression"
    /\ progression.session_scores = <<900, 880, 950>>
    /\ Val(prog).action = "upgrade"
    /\ Val(prog).new_target_reps = Some(12)

\* C13: two compute_progression() calls in a row, with no call between them, return
\* the same result.
C13_ComputeTwiceSameResult ==
    [][(op = "compute_progression" /\ op' = "compute_progression") => prog' = prog]_vars

InClamps(p) ==
    /\ 5 <= p.target_reps /\ p.target_reps <= 30
    /\ 70 <= p.target_rom_multiplier /\ p.target_rom_multiplier <= 150
    /\ 50 <= p.sway_tolerance_multiplier /\ p.sway_tolerance_multiplier <= 200

\* C14: after every record_session() and compute_progression() call the parameters
\* are within 5..30, 0.7..1.5 and 0.5..2.0; an upgrade moves them by +2 / +0.05 /
\* -0.1 and a regress by -2 / -0.05 / +0.1, clamped to these ranges.
C14_ParametersWithinClamps ==
    [][/\ InClamps(progression')
       /\ (op' = "compute_progression" /\ Val(prog').action = "upgrade") =>
            /\ progression'.target_reps = Min2(progression.target_reps + 2, 30)
            /\ progression'.target_rom_multiplier
                 = Min2(progression.target_rom_multiplier + 5, 150)
            /\ progression'.sway_tolerance_multiplier
                 = Max2(progression.sway_tolerance_multiplier - 10, 50)
       /\ (op' = "compute_progression" /\ Val(prog').action = "regress") =>
            /\ progression'.target_reps = Max2(progression.target_reps - 2, 5)
            /\ progression'.target_rom_multiplier
                 = Max2(progression.target_rom_multiplier - 5, 70)
            /\ progression'.sway_tolerance_multiplier
                 = Min2(progression.sway_tolerance_multiplier + 10, 200)]_vars

\* a regress was clamped at the floor of target_reps (5 is reached from 6 only)
C14_Witness ==
    /\ op = "compute_progression"
    /\ Val(prog).action = "regress"
    /\ progression.target_reps = 5
    /\ progression.target_rom_multiplier = 85

\* C16: a load() from a missing or malformed file does not raise and leaves the
\* defaults.
C16_LoadNeverFails ==
    (op \in {"load", "load raised"} /\ progression_file \in {FileMissing, FileMalformed})
    => (op = "load" /\ progression = ProgressionState_init)

\* C17: compute_progression() never changes the score history, and changes no
\* parameter when it returns 'maintain' or 'none'; record_session() appends one score
\* to the history and changes no parameter.
C17_FrameOfProgression ==
    [][/\ op' = "compute_progression" =>
            /\ progression'.session_scores = progression.session_scores
            /\ Val(prog').action \in {"maintain", "none"} => progression' = progression
       /\ op' = "record_session" =>
            /\ Len(progression'.session_scores) = Len(progression.session_scores) + 1
            /\ SubSeq(progression'.session_scores, 1, Len(progression.session_scores))
                 = progression.session_scores
            /\ [progression' EXCEPT !.session_scores = <<>>]
                 = [progression EXCEPT !.session_scores = <<>>]]_vars

\* 'maintain' was returned on parameters an earlier regress had changed
C17_Witness ==
    /\ op = "compute_progression"
    /\ Val(prog).action = "maintain"
    /\ progression.target_reps = 8
    /\ Len(progression.session_scores) >= 2

\* a step of the stop branch of toggle_analysis
Stops == is_running /\ ~is_running' /\ op' # "on_closing"

\* C15: a stop ends the session, records the summary's avg_final_score once in the
\* progression state, then computes the progression and saves the state it leaves;
\* no other step changes the progression state, its last result or its file.
C15_StopUpdatesProgressionOnce ==
    [][IF Stops
       THEN LET avg == Session_summary_avg_final_score(Val(session'))
                recorded == [progression EXCEPT !.session_scores = Append(@, avg)]
            IN  /\ Val(session').end_time # None
                /\ Val(session').reps = Val(session).reps
                /\ progression'.session_scores = recorded.session_scores
                /\ progression' = ProgressionState_compute_progression(recorded).self
                /\ prog' = Some(ProgressionState_compute_progression(recorded).result)
                /\ progression_file' = FileWith(progression')
       ELSE UNCHANGED <<progression, prog, progression_file>>]_vars

\* two sessions were stopped, the first with a scored rep, and the progression
\* changed at a stop
C15_Witness ==
    /\ ~is_running
    /\ session # None
    /\ Val(session).end_time # None
    /\ Len(progression.session_scores) = 2
    /\ progression.session_scores[1] > 0
    /\ progression.target_reps < 10
    /\ progression_file = FileWith(progression)

\* C18: a session is ended at its stop and not changed afterwards: the session of a
\* running analysis is not ended, a stop sets its end_time, and a session with an
\* end_time changes only by being replaced by the session of the next start, also
\* when a frame callback scheduled before the stop fires after it.
C18_EndedOnceThenImmutable ==
    [][/\ is_running' => (session' # None /\ Val(session').end_time = None)
       /\ Stops => Val(session').end_time # None
       /\ (session # None /\ Val(session).end_time # None /\ session' # session)
            => (~is_running /\ is_running')]_vars

\* the callback scheduled before a stop has fired after it, on an ended session that
\* holds a rep
C18_Witness ==
    /\ ~is_running
    /\ Open
    /\ pending = 0
    /\ session # None
    /\ Val(session).end_time # None
    /\ Val(session).reps # <<>>
    /\ current_exercise.rep_completed

\* C19: a step that appends a RepRecord to the session is a frame processed by the
\* exercise named in session.exercise_name.
C19_RepsOfTheSessionExercise ==
    [][(session' # None /\ is_running'
          /\ Len(Val(session').reps)
               > (IF is_running /\ session # None THEN Len(Val(session).reps) ELSE 0))
         => current_exercise'.name = Val(session').exercise_name]_vars

\* a frame on which update_frame calls session.add_rep
AddRepCalled ==
    /\ frames' # frames
    /\ current_exercise'.rep_completed
    /\ current_exercise'.last_rep_scores # None

\* C20: the i-th record of a session has rep_number i; a frame of a running session
\* keeps the records it had and appends one record for each add_rep call, so
\* total_reps is the number of add_rep calls.
C20_RepNumbersSequential ==
    [][session' # None =>
         LET new == Val(session').reps
             old == IF is_running /\ session # None THEN Val(session).reps ELSE <<>>
         IN  /\ \A i \in 1..Len(new) : new[i].rep_number = i
             /\ is_running' =>
                  /\ Len(new) >= Len(old)
                  /\ SubSeq(new, 1, Len(old)) = old
                  /\ Session_total_reps(Val(session'))
                       = Len(old) + (IF AddRepCalled THEN 1 ELSE 0)]_vars

\* a session holds two records
C20_Witness ==
    /\ session # None
    /\ Len(Val(session).reps) = 2
    /\ Val(session).reps[2].rep_number = 2

\* the mean of the scores reps[i][key] as a fraction, 0 for no rep
MeanOf(reps, key) ==
    IF Len(reps) = 0 THEN <<0, 1>>
    ELSE <<SeqSum([i \in 1..Len(reps) |-> reps[i][key]]), Len(reps)>>

\* two fractions with positive denominators are the same number
SameNumber(a, b) == a[1] * b[2] = b[1] * a[2]

\* C21: each of the five session averages is the arithmetic mean of that score over
\* the recorded reps and is 0 for a session without reps; final scores
\* [70, 80, 90] give avg_final_score 80.0 and total_reps 3.
C21_AveragesAreMeans ==
    session # None =>
      LET s == Val(session)
      IN  /\ SameNumber(Session_avg_final_score(s), MeanOf(s.reps, "final_score"))
          /\ SameNumber(Session_avg_rom_score(s), MeanOf(s.reps, "rom_score"))
          /\ SameNumber(Session_avg_stability_score(s), MeanOf(s.reps, "stability_score"))
          /\ SameNumber(Session_avg_tempo_score(s), MeanOf(s.reps, "tempo_score"))
          /\ SameNumber(Session_avg_asymmetry_score(s), MeanOf(s.reps, "asymmetry_score"))
          /\ s.reps = <<>> =>
               \A a \in {Session_avg_final_score(s), Session_avg_rom_score(s),
                         Session_avg_stability_score(s), Session_avg_tempo_score(s),
                         Session_avg_asymmetry_score(s)} : a[1] = 0 /\ a[2] > 0
          /\ [i \in 1..Len(s.reps) |-> s.reps[i].final_score] = <<700, 800, 900>> =>
               /\ SameNumber(Session_avg_final_score(s), <<800, 1>>)
               /\ Session_total_reps(s) = 3

\* three reps with final scores 70, 80, 90 were added
C21_Witness ==
    /\ session # None
    /\ op = "add_rep"
    /\ [i \in 1..Len(Val(session).reps) |-> Val(session).reps[i].final_score]
         = <<700, 800, 900>>
    /\ Session_avg_tempo_score(Val(session)) = <<2400, 3>>

\* the feedback strings passed to the add_rep calls of a session
Passed(s) == UNION {Range(s.reps[i].feedback) : i \in 1..Len(s.reps)}

\* C22: whatever order the set gives it, summary()["feedback_events"] holds every
\* distinct feedback string passed to an add_rep call of the session once, and no
\* other string.
C22_FeedbackEventsDeduplicated ==
    session # None =>
      /\ Session_summary_feedback_events(Val(session)) # {}
      /\ \A events \in Session_summary_feedback_events(Val(session)) :
           /\ Range(events) = Passed(Val(session))
           /\ \A i, j \in 1..Len(events) : events[i] = events[j] => i = j

\* the same string was passed to two add_rep calls, and twice two strings
C22_Witness ==
    /\ session # None
    /\ op = "add_rep"
    /\ Len(Val(session).feedback_events) = 5
    /\ Cardinality(Passed(Val(session))) = 2
    /\ Cardinality(Session_summary_feedback_events(Val(session))) = 2

\* the score keys of a RepRecord
ScoreKeys ==
    {"rom_score", "stability_score", "tempo_score", "asymmetry_score", "final_score"}

\* the document read back holds total_reps of s and one entry per rep of s, in
\* order, with the five scores of the rep and rep = its position
SameReps(data, s) ==
    /\ data.summary.total_reps = Session_total_reps(s)
    /\ Len(data.reps) = Len(s.reps)
    /\ \A i \in 1..Len(s.reps) :
         /\ data.reps[i].rep = i
         /\ \A key \in ScoreKeys : data.reps[i][key] = s.reps[i][key]

\* C23 as stated: the document read back holds the session's total_reps, per-rep
\* scores and avg_final_score (the value of the property, in tenths).
C23_RoundTripExact ==
    session # None =>
      \A events \in Session_summary_feedback_events(Val(session)) :
        LET data == Session_to_json(Val(session), events)
            avg == Session_avg_final_score(Val(session))
        IN  /\ SameReps(data, Val(session))
            /\ data.summary.avg_final_score * avg[2] = avg[1]

\* C23, amended: the document read back holds the session's total_reps and per-rep
\* scores, and avg_final_score to the nearest tenth.
C23_RoundTripRounded ==
    session # None =>
      \A events \in Session_summary_feedback_events(Val(session)) :
        LET data == Session_to_json(Val(session), events)
            avg == Session_avg_final_score(Val(session))
        IN  /\ SameReps(data, Val(session))
            /\ 2 * Abs(data.summary.avg_final_score * avg[2] - avg[1]) <= avg[2]

\* a session of three reps whose average final score has more than one decimal
C23_Witness ==
    /\ session # None
    /\ op = "add_rep"
    /\ [i \in 1..Len(Val(session).reps) |-> Val(session).reps[i].final_score]
         = <<700, 800, 800>>
    /\ Val(session).feedback_events # <<>>

\* C24: a start of analysis leaves the state a program without any earlier session
\* would have: if its first frame shows no pose, the smoother holds no state, the
\* sway window is empty, the exercise is as constructed and the session is new and
\* empty; if it shows a pose, the state is the one this frame gives from those.
C24_StartDropsHistory ==
    [][(~is_running /\ is_running') =>
         LET fresh == ExerciseBase_init(current_exercise.name)
         IN  /\ session' = Some(Session_init(exercise_var))
             /\ \/ /\ smoother'.state = None
                   /\ sway_tracker'.hip_x_history = <<>>
                   /\ sway_tracker'.current_sway = 0
                   /\ current_exercise' = fresh
                \/ \E p \in Landmarks(fresh.name), d0 \in ClockStep, ds \in Advances :
                     /\ smoother' = EMALandmarkSmoother_smooth(EMALandmarkSmoother_init,
                                                               Landmark(p))
                     /\ sway_tracker' = SwayTracker_update(SwayTracker_init(30),
                                                           Landmark(p).hip_x)
                     /\ current_exercise'
                          = process(fresh, Read(now, d0), ds, Landmark(p)).self]_vars

\* a second analysis has just started, after one that recorded a rep
C24_Witness ==
    /\ is_running
    /\ progression.session_scores # <<>>
    /\ progression.session_scores[1] > 0
    /\ Val(session).reps = <<>>
    /\ current_exercise.rom_tracker.rep_roms = <<>>
    /\ current_exercise.counter = 0
    /\ smoother.state = None

\* a frame with a pose was processed: the feedback engine was evaluated
Evaluated == frames' # frames /\ smoother'.state # None

\* C25: the context handed to evaluate() on a frame has the keys current_rom,
\* target_rom, rep_time and ideal_rep_time.
C25_ContextHasContractKeys ==
    [][Evaluated =>
         {"current_rom", "target_rom", "rep_time", "ideal_rep_time"}
           \subseteq DOMAIN Context(current_exercise', sway_tracker'.current_sway)]_vars

\* the place of a rule added directly in the order of the add_rule calls
AddedAt(rule) == CHOOSE k \in 1..Len(RuleNames) : RuleNames[k] = rule.name

\* C26: engine.rules is ordered by non-decreasing priority, and rules of equal
\* priority are in the order they were added.
C26_RulesSortedByPriority ==
    LET rules == feedback_engine.rules
    IN  \A i, j \in 1..Len(rules) :
          i < j => /\ rules[i].priority <= rules[j].priority
                   /\ rules[i].priority = rules[j].priority
                        => AddedAt(rules[i]) < AddedAt(rules[j])

\* three rules were added with decreasing priorities and a tie: the last one added
\* is first, the first one added is after the second
C26_Witness ==
    /\ op = "add_rule"
    /\ Len(feedback_engine.rules) = 3
    /\ feedback_engine.rules[1].name = "third"
    /\ feedback_engine.rules[2].name = "first"
    /\ feedback_engine.rules[2].priority = feedback_engine.rules[3].priority

C28_ScoresWithinRange ==
    (scoring # None /\ Val(scoring).fn = "score_rep") =>
        \A key \in ScoreKeys :
            /\ Val(Val(scoring).scores)[key] >= 0
            /\ Val(Val(scoring).scores)[key] <= 1000

\* a call whose ROM is above the target, whose sway is above the tolerance and whose
\* angles differ by 70 degrees, under weights above 1
C28_Witness ==
    /\ scoring # None
    /\ Val(scoring).fn = "score_rep"
    /\ Val(scoring).args[1].weight_rom = 60
    /\ Val(scoring).args[2] = 120
    /\ Val(scoring).args[3] = 500
    /\ Val(scoring).args[6] = Some(100)
    /\ Val(Val(scoring).scores).rom_score = 1000
    /\ Val(Val(scoring).scores).stability_score = 0
    /\ Val(Val(scoring).scores).asymmetry_score = 0

\* twice the value of clamp(x / 2) for an integer x
ClampTwice(x) == IF x < 0 THEN 0 ELSE IF x > 200 THEN 200 ELSE x

\* C29: compute_tempo_score is clamp(100 - (ideal - rep_time) * factor * 2) below
\* the ideal duration and clamp(100 - (rep_time - ideal) * factor * 0.5) from it on;
\* the ideal duration scores 100, and with ideal 4 and factor 20 a rep_time of 1
\* scores 0 and a rep_time of 6 scores 80.
C29_TempoScoreAsymmetric ==
    (scoring # None /\ Val(scoring).fn = "compute_tempo_score") =>
        LET rep_t == Val(scoring).args[1]
            ideal == Val(scoring).args[2]
            factor == Val(scoring).args[3]
            score == Val(Val(scoring).score)
        IN  /\ rep_t < ideal =>
                 SameNumber(score, <<ClampTwice(200 - (ideal - rep_t) * factor * 4), 2>>)
            /\ rep_t >= ideal =>
                 SameNumber(score, <<ClampTwice(200 - (rep_t - ideal) * factor), 2>>)
            /\ rep_t = ideal => SameNumber(score, <<100, 1>>)
            /\ (ideal = 4 /\ factor = 20 /\ rep_t = 1) => SameNumber(score, <<0, 1>>)
            /\ (ideal = 4 /\ factor = 20 /\ rep_t = 6) => SameNumber(score, <<80, 1>>)

\* compute_tempo_score(6, 4, 20) was called
C29_Witness ==
    /\ scoring # None
    /\ Val(scoring).fn = "compute_tempo_score"
    /\ Val(scoring).args = <<6, 4, 20>>
    /\ SameNumber(Val(Val(scoring).score), <<80, 1>>)

\* a >= b for two fractions with positive denominators
AtLeast(a, b) == a[1] * b[2] >= b[1] * a[2]

\* C30: for target_rom > 0, compute_rom_score is user_rom / target_rom * 100 clamped
\* to [0, 100]; it does not decrease when user_rom grows, it is 100 exactly when
\* user_rom >= target_rom; 45 of 90 scores 50 and 120 of 90 scores 100.
C30_RomScoreProportional ==
    (scoring # None /\ Val(scoring).fn = "compute_rom_score" /\ Val(scoring).args[2] > 0) =>
        LET user_rom == Val(scoring).args[1]
            target_rom == Val(scoring).args[2]
            score == Val(Val(scoring).score)
        IN  /\ user_rom <= 0 => SameNumber(score, <<0, 1>>)
            /\ (0 < user_rom /\ user_rom < target_rom) =>
                 SameNumber(score, <<user_rom * 100, target_rom>>)
            /\ SameNumber(score, <<100, 1>>) <=> user_rom >= target_rom
            /\ \A more \in UserRoms :
                 more >= user_rom => AtLeast(compute_rom_score(more, target_rom), score)
            /\ (user_rom = 45 /\ target_rom = 90) => SameNumber(score, <<50, 1>>)
            /\ (user_rom = 120 /\ target_rom = 90) => SameNumber(score, <<100, 1>>)

\* compute_rom_score(120, 90) was called
C30_Witness ==
    /\ scoring # None
    /\ Val(scoring).fn = "compute_rom_score"
    /\ Val(scoring).args = <<120, 90>>
    /\ SameNumber(Val(Val(scoring).score), <<100, 1>>)

\* C35: at any time at most one update_frame callback is scheduled.
C35_OneCallbackPending == pending <= 1

PoorDepth == "Try to go deeper for full range"

\* C37: on a frame that records a rep the context's current_rom is 0, and no
\* record of a session carries the poor-depth message.
C37_NoPoorDepthOnRepFrames ==
    [][/\ AddRepCalled =>
            Context(current_exercise', sway_tracker'.current_sway).current_rom = 0
       /\ session' # None =>
            \A i \in 1..Len(Val(session').reps) :
                PoorDepth \notin Range(Val(session').reps[i].feedback)]_vars

\* a rep was just recorded whose ROM is positive and below 60% of the target: the
\* rule would have triggered on the extremes the rep had
C37_Witness ==
    /\ is_running
    /\ session # None
    /\ Val(session).reps # <<>>
    /\ current_exercise.rep_completed
    /\ rom # None
    /\ Val(rom) > 0
    /\ 10 * Val(rom) < 6 * Config(current_exercise.name).target_rom
    /\ Context(current_exercise, sway_tracker.current_sway).current_rom = 0

\* C38: a stop of a session with no record appends the score 0 to the progression
\* history, and the progression it computes is 'regress': target reps go down by 2
\* (not below 5), the ROM multiplier down by 0.05 (not below 0.7) and the sway
\* tolerance up by 0.1 (not above 2.0), whatever the history was.
C38_EmptySessionRegresses ==
    [][(Stops /\ session # None /\ Val(session).reps = <<>>) =>
         /\ progression'.session_scores = Append(progression.session_scores, 0)
         /\ Val(prog').action = "regress"
         /\ progression'.target_reps = Max2(progression.target_reps - 2, 5)
         /\ progression'.target_rom_multiplier
              = Max2(progression.target_rom_multiplier - 5, 70)
         /\ progression'.sway_tolerance_multiplier
              = Min2(progression.sway_tolerance_multiplier + 10, 200)
         /\ Val(prog').new_target_reps = Some(progression'.target_reps)]_vars

\* a session with no record was stopped after a session that scored above 60
C38_Witness ==
    /\ ~is_running
    /\ session # None
    /\ Val(session).reps = <<>>
    /\ Val(session).end_time # None
    /\ Len(progression.session_scores) = 2
    /\ progression.session_scores[1] >= 600
    /\ progression.session_scores[2] = 0
    /\ prog # None
    /\ Val(prog).action = "regress"

\* the number of scores at the end of the history that are all above 85
Streak(scores) ==
    MaxOf({k \in 0..Len(scores) : \A i \in (Len(scores) - k + 1)..Len(scores) : scores[i] > 850})

\* C39: a compute_progression() call on a history that ends with three or more
\* sessions above 85 returns 'upgrade' and moves the parameters one step (to the
\* clamps at most), whatever calls came before; one on a history whose latest
\* session is at most 85 does not.
C39_StreakNeverConsumed ==
    [][op' = "compute_progression" =>
         /\ Streak(progression.session_scores) >= 3 =>
              /\ Val(prog').action = "upgrade"
              /\ progression'.target_reps = Min2(progression.target_reps + 2, 30)
              /\ progression'.target_rom_multiplier
                   = Min2(progression.target_rom_multiplier + 5, 150)
              /\ progression'.sway_tolerance_multiplier
                   = Max2(progression.sway_tolerance_multiplier - 10, 50)
         /\ Streak(progression.session_scores) = 0 => Val(prog').action # "upgrade"]_vars

\* the fourth session of a streak upgraded after the third did: target reps are 14
C39_Witness ==
    /\ op = "compute_progression"
    /\ Len(progression.session_scores) = 4
    /\ Streak(progression.session_scores) = 4
    /\ Val(prog).action = "upgrade"
    /\ progression.target_reps = 14
    /\ progression.target_rom_multiplier = 110

\* C40: the frame that completes the first rep of Marching since a reset finds no
\* start pending (the rep starts in the same process() call), so the rep lasts no
\* longer than the handler; with no advance of the clock inside the handler the
\* start and the completion read the same time, the rep_time is 0, and the
\* tempo_score of a rep_time of 0 is 0.
C40_MarchingFirstRepIsInstant ==
    [][LET ex == IF is_running THEN current_exercise
                 ELSE ExerciseBase_reset(current_exercise)
           after == current_exercise'
       IN  (/\ is_running'
            /\ frames' # frames
            /\ after.name = "Marching"
            /\ ex.tempo_tracker.rep_times = <<>>
            /\ after.tempo_tracker.rep_times # <<>>) =>
               /\ ex.tempo_tracker.rep_start_time = None
               /\ after.tempo_tracker.rep_times = <<Val(rep_time')>>
               /\ Val(rep_time') <= now' - now
               /\ Val(rep_time') = 0 => Val(after.last_rep_scores).tempo_score = 0
               /\ \A p \in Landmarks("Marching"), d0 \in ClockStep :
                      LET e == process(ex, Read(now, d0), <<0, 0, 0>>, Landmark(p))
                      IN  e.hooks > 0 =>
                              /\ e.started = Some(Read(now, d0))
                              /\ e.completed = e.started
                              /\ e.rep_time = Some(0)
                              /\ Val(e.self.last_rep_scores).tempo_score = 0]_vars

\* the first rep of Marching was just recorded with a rep_time of 0 and a
\* tempo_score of 0
C40_Witness ==
    /\ is_running
    /\ current_exercise.name = "Marching"
    /\ current_exercise.counter = 1
    /\ current_exercise.rep_completed
    /\ current_exercise.tempo_tracker.rep_times = <<0>>
    /\ Val(current_exercise.last_rep_scores).tempo_score = 0
    /\ session # None
    /\ Len(Val(session).reps) = 1
    /\ Val(session).reps[1].tempo_score = 0

\* C32: two score_rep() calls in a row that agree on the configuration, the ROM,
\* the sway and the duration return the same rom, stability, tempo and final
\* scores, whatever angles each was given; a call with an angle missing returns an
\* asymmetry score of 100.
C32_AsymmetryLeavesFinalScore ==
    [][(scoring' # None /\ Val(scoring').fn = "score_rep") =>
         /\ (Val(scoring').args[5] = None \/ Val(scoring').args[6] = None) =>
              Val(Val(scoring').scores).asymmetry_score = 1000
         /\ (/\ scoring # None
             /\ Val(scoring).fn = "score_rep"
             /\ SubSeq(Val(scoring).args, 1, 4) = SubSeq(Val(scoring').args, 1, 4)) =>
              \A key \in {"rom_score", "stability_score", "tempo_score", "final_score"} :
                  Val(Val(scoring').scores)[key] = Val(Val(scoring).scores)[key]]_vars

\* a call with both angles, 20 degrees apart, returned an asymmetry score of 0 and
\* a final score above 0
C32_Witness ==
    /\ scoring # None
    /\ Val(scoring).fn = "score_rep"
    /\ Val(scoring).args[5] = Some(170)
    /\ Val(scoring).args[6] = Some(150)
    /\ Val(Val(scoring).scores).asymmetry_score = 0
    /\ Val(Val(scoring).scores).final_score > 0

\* C31: compute_rom_score with target_rom <= 0 returns 100, compute_stability_score
\* with acceptable_sway <= 0 returns 100, and normalize_landmarks with a torso length
\* below 0.01 divides the valid landmarks by 0.01: no result has a zero divisor.
C31_NoDivisionByZero ==
    /\ (scoring # None /\ Val(scoring).fn = "compute_rom_score"
          /\ Val(scoring).args[2] <= 0) =>
         Val(Val(scoring).score) = <<100, 1>>
    /\ (scoring # None /\ Val(scoring).fn = "compute_stability_score"
          /\ Val(scoring).args[2] <= 0) =>
         Val(Val(scoring).score) = <<100, 1>>
    /\ (landmark_call # None /\ Val(landmark_call).fn = "normalize_landmarks"
          /\ Val(landmark_call).args[3] < TorsoEpsilon) =>
         LET given == Val(landmark_call).args[1]
             hip_center == Val(landmark_call).args[2]
             returned == Val(landmark_call).returned
         IN  /\ Len(returned) = Len(given)
             /\ \A i \in 1..Len(given) :
                    given[i].valid =>
                        /\ returned[i].x = <<given[i].x - hip_center[1], TorsoEpsilon>>
                        /\ returned[i].y = <<given[i].y - hip_center[2], TorsoEpsilon>>
                        /\ returned[i].z = <<given[i].z - hip_center[3], TorsoEpsilon>>

\* a stability score was asked with a tolerance of 0 and a list with a valid
\* landmark was normalised with a torso length of 0
C31_Witness ==
    /\ scoring # None
    /\ Val(scoring).fn = "compute_stability_score"
    /\ Val(scoring).args[2] = 0
    /\ Val(scoring).args[1] > 0
    /\ landmark_call # None
    /\ Val(landmark_call).fn = "normalize_landmarks"
    /\ Val(landmark_call).args[3] = 0
    /\ \E i \in 1..Len(Val(landmark_call).args[1]) : Val(landmark_call).args[1][i].valid

\* C33: smooth() leaves visibility as it is; with no filter state (after
\* construction or reset()) it returns the coordinates it was given; otherwise
\* each coordinate of landmark i becomes alpha * current + (1 - alpha) * state of
\* landmark i; the state is the coordinates returned; reset() drops the state.
C33_FirstFrameVerbatimThenEMA ==
    [][/\ op' = "reset" => smoother'.state = None
       /\ op' = "EMALandmarkSmoother" => smoother'.state = None
       /\ op' = "smooth" =>
            LET given == Val(landmark_call').args[1]
                returned == Val(landmark_call').returned
                alpha == Alpha(smoother)
                blend(cur, old) ==
                    <<alpha[1] * cur * old[2] + (alpha[2] - alpha[1]) * old[1],
                      alpha[2] * old[2]>>
            IN  /\ Len(returned) = Len(given)
                /\ smoother'.state # None
                /\ \A i \in 1..Len(given) :
                       /\ returned[i].visibility = given[i].visibility
                       /\ Val(smoother'.state)[i]
                            = <<returned[i].x, returned[i].y, returned[i].z>>
                       /\ IF smoother.state = None
                          THEN /\ returned[i].x = <<given[i].x, 1>>
                               /\ returned[i].y = <<given[i].y, 1>>
                               /\ returned[i].z = <<given[i].z, 1>>
                          ELSE /\ returned[i].x = blend(given[i].x, Val(smoother.state)[i][1])
                               /\ returned[i].y = blend(given[i].y, Val(smoother.state)[i][2])
                               /\ returned[i].z = blend(given[i].z, Val(smoother.state)[i][3])]_vars

\* the third frame since a reset was smoothed with alpha 0.3: the x of landmark 1
\* is 0.3 * 5000 + 0.7 * (0.3 * 4000 + 0.7 * 5000) = 4790
C33_Witness ==
    /\ op = "smooth"
    /\ Alpha(smoother) = <<3, 10>>
    /\ Val(landmark_call).args[1] = <<LmA, LmB>>
    /\ Val(landmark_call).returned[1].x = <<479000, 100>>
    /\ Val(landmark_call).returned[2].visibility = Some(20)

\* C34: filter_visibility and normalize_landmarks return one landmark for each
\* landmark given, in the same place; filter_visibility copies the coordinates and
\* marks a landmark invalid exactly when its visibility is below the threshold;
\* normalize_landmarks keeps the flag and the visibility, and the coordinates of an
\* invalid landmark.
C34_InvalidLandmarksRetained ==
    /\ (landmark_call # None /\ Val(landmark_call).fn = "filter_visibility") =>
         LET given == Val(landmark_call).args[1]
             threshold == Val(landmark_call).args[2]
             returned == Val(landmark_call).returned
         IN  /\ Len(returned) = Len(given)
             /\ \A i \in 1..Len(given) :
                    /\ returned[i].x = given[i].x
                    /\ returned[i].y = given[i].y
                    /\ returned[i].z = given[i].z
                    /\ returned[i].visibility = Visibility(given[i])
                    /\ returned[i].valid = ~(Visibility(given[i]) < threshold)
    /\ (landmark_call # None /\ Val(landmark_call).fn = "normalize_landmarks") =>
         LET given == Val(landmark_call).args[1]
             returned == Val(landmark_call).returned
         IN  /\ Len(returned) = Len(given)
             /\ \A i \in 1..Len(given) :
                    /\ returned[i].valid = given[i].valid
                    /\ returned[i].visibility = given[i].visibility
                    /\ ~given[i].valid =>
                           /\ returned[i].x = given[i].x
                           /\ returned[i].y = given[i].y
                           /\ returned[i].z = given[i].z

\* a list of three landmarks whose first is below the threshold was normalised:
\* the first is returned invalid with its coordinates, the third normalised
C34_Witness ==
    /\ landmark_call # None
    /\ Val(landmark_call).fn = "normalize_landmarks"
    /\ Len(Val(landmark_call).returned) = 3
    /\ ~Val(landmark_call).returned[1].valid
    /\ Val(landmark_call).returned[1].x = LmB.x
    /\ Val(landmark_call).returned[3].valid
    /\ Val(landmark_call).args[3] = 2500
    /\ Val(landmark_call).returned[3].x = <<0, 2500>>

====
